---------------------------- MODULE Spec2Model ----------------------------
(***************************************************************************)
(* Model of the daylight home-energy backend: the device store, the        *)
(* reading store, device registration, the storage mode change, the        *)
(* periodic telemetry task (core/tasks.py) run by a pool of workers, the   *)
(* energy summary and the aggregation of the readings.                     *)
(*                                                                         *)
(* Numbers.  The code computes with Python floats.  The model computes     *)
(* with integers and draws every input from grids on which the float       *)
(* arithmetic of the code is exact: capacities are multiples of 10 Wh (so  *)
(* capacity * 0.1, * 0.5 and * 0.8 are whole), rates are multiples of      *)
(* 60 W (so rate * 60 / 3600 is whole).  The solar curve is a table of     *)
(* its values, rounded to a thousandth, at the minutes the model ticks at. *)
(* The readings the aggregation is tried on hold multiples of 60, so the   *)
(* average of up to six of them is whole.  The rows of the seed command    *)
(* hold the numbers of the command: on them the appliance draws are whole, *)
(* and a charge step is whole while the storage devices are Idle.          *)
(*                                                                         *)
(* Time.  A timestamp is a number of seconds of local time since the       *)
(* midnight that starts Monday 1 January 2024.                             *)
(*                                                                         *)
(* Rows.  A device is named by its place in the device table; the place 0  *)
(* names a row that is gone (the uuid of a deleted device).                *)
(*                                                                         *)
(* An optional value (Python None) is the empty sequence; a present value  *)
(* v is <<v>>.                                                             *)
(***************************************************************************)
EXTENDS Integers, Sequences, FiniteSets, TLC

VARIABLES
    devices,    \* the Device table: a sequence of rows, in creation order
    readings,   \* the TelemetryReading table: a sequence of rows
    clock,      \* how many instants of Instants have passed
    ticks,      \* per worker: the simulate_telemetry task it is running
    ssm,        \* the SetStorageMode mutation in flight, if any
    last,       \* the operation that completed, or the run of the task
                \* that started, last, with its inputs
    calls,      \* how many requests (mode changes, recordings) were made
    seed        \* the seed command: where it is, how many operations
                \* started between its two statements, and how many runs
                \* of the task have loaded the rows it created

vars == <<devices, readings, clock, ticks, ssm, last, calls, seed>>

---------------------------------------------------------------------------
(* Bounds of the model.                                                    *)

MaxDevices == 2
MaxClock == 2
MaxWorkers == 2
MaxCalls == 1
MaxRuns == 6
MaxSeededRuns == 1
MaxBetween == 1

(* Program constants.                                                      *)

DurationSeconds == 60
SecondsPerHour == 3600
APPLIANCE_ON_PROBABILITY == 30
APPLIANCE_OFF_PROBABILITY == 20
APPLIANCE_POWER_VARIANCE == 10
SOLAR_VARIATION == 15
SolarFirstHour == 6
SolarLastHour == 20

---------------------------------------------------------------------------
(* Python helpers.                                                         *)

None == <<>>
Some(v) == <<v>>
IsNone(o) == o = <<>>
Val(o) == o[1]

Min(a, b) == IF a <= b THEN a ELSE b
Max(a, b) == IF a >= b THEN a ELSE b

\* dict.get(key, default)
Get(dict, key, default) == IF key \in DOMAIN dict THEN dict[key] ELSE default

\* dict.update(patch): the keys of patch overwrite, every other key is kept
Update(dict, patch) ==
    [k \in DOMAIN dict \cup DOMAIN patch |->
        IF k \in DOMAIN patch THEN patch[k] ELSE dict[k]]

\* x * 0.1, x * 0.5 and x * 0.8 on multiples of 10
TimesTenth(x) == x \div 10
TimesHalf(x) == x \div 2
TimesFourFifths(x) == (x * 4) \div 5

---------------------------------------------------------------------------
(* core/models.py                                                          *)

SOLAR_PANEL == "solar_panel"
BATTERY == "battery"
ELECTRIC_VEHICLE == "electric_vehicle"
APPLIANCE == "appliance"
DeviceType == {SOLAR_PANEL, BATTERY, ELECTRIC_VEHICLE, APPLIANCE}

CHARGING == "charging"
DISCHARGING == "discharging"
IDLE == "idle"
DeviceMode == {CHARGING, DISCHARGING, IDLE}

StorageTypes == {BATTERY, ELECTRIC_VEHICLE}

\* Device.capacity_wh: None for a device that is no storage device
capacity_wh(device) ==
    IF device.device_type = BATTERY
    THEN IF "capacity_wh" \in DOMAIN device.properties
         THEN Some(device.properties["capacity_wh"]) ELSE None
    ELSE IF device.device_type = ELECTRIC_VEHICLE
    THEN IF "battery_capacity_wh" \in DOMAIN device.properties
         THEN Some(device.properties["battery_capacity_wh"]) ELSE None
    ELSE None

\* `device.capacity_wh or 0`
CapacityOrZero(device) ==
    IF IsNone(capacity_wh(device)) THEN 0 ELSE Val(capacity_wh(device))

\* Device.is_producer
is_producer(device) ==
    IF device.device_type = SOLAR_PANEL
    THEN Get(device.current_state, "current_output_watts", 0) > 0
    ELSE IF device.device_type \in StorageTypes
    THEN Get(device.current_state, "mode", "") = DISCHARGING
    ELSE FALSE

\* Device.is_consumer
is_consumer(device) ==
    IF device.device_type = APPLIANCE
    THEN Get(device.current_state, "is_on", FALSE)
    ELSE IF device.device_type \in StorageTypes
    THEN Get(device.current_state, "mode", "") = CHARGING
    ELSE FALSE

charge_percentage_fraction(device) ==
    IF device.device_type \notin StorageTypes THEN None
    ELSE LET capacity ==
                 IF device.device_type = BATTERY
                 THEN Get(device.properties, "capacity_wh", 0)
                 ELSE Get(device.properties, "battery_capacity_wh", 0)
             current == Get(device.current_state, "current_charge_wh", 0)
         IN  IF capacity > 0 THEN Some(current \div capacity)
             ELSE Some(0)

\* Device.charge_percentage: None for a device that is no storage device;
\* (current / capacity) * 100, which is whole on the model's grids
charge_percentage(device) ==
    IF device.device_type \notin StorageTypes THEN None
    ELSE LET capacity ==
                 IF device.device_type = BATTERY
                 THEN Get(device.properties, "capacity_wh", 0)
                 ELSE Get(device.properties, "battery_capacity_wh", 0)
             current == Get(device.current_state, "current_charge_wh", 0)
         IN  IF capacity > 0 THEN Some((current * 100) \div capacity)
             ELSE Some(0)

current_power_watts_negated(device) ==
    IF device.device_type = SOLAR_PANEL
    THEN Get(device.current_state, "current_output_watts", 0)
    ELSE IF device.device_type = APPLIANCE
    THEN IF Get(device.current_state, "is_on", FALSE)
         THEN Get(device.current_state, "current_power_draw_watts", 0)
         ELSE 0
    ELSE IF device.device_type \in StorageTypes
    THEN LET mode == Get(device.current_state, "mode", IDLE)
             rate == Get(device.current_state, "current_rate_watts", 0)
         IN  IF mode = DISCHARGING THEN 0 - rate
             ELSE IF mode = CHARGING THEN rate
             ELSE 0
    ELSE 0

\* Device.current_power_watts: positive = producing, negative = consuming
current_power_watts(device) ==
    IF device.device_type = SOLAR_PANEL
    THEN Get(device.current_state, "current_output_watts", 0)
    ELSE IF device.device_type = APPLIANCE
    THEN IF Get(device.current_state, "is_on", FALSE)
         THEN 0 - Get(device.current_state, "current_power_draw_watts", 0)
         ELSE 0
    ELSE IF device.device_type \in StorageTypes
    THEN LET mode == Get(device.current_state, "mode", IDLE)
             rate == Get(device.current_state, "current_rate_watts", 0)
         IN  IF mode = DISCHARGING THEN rate
             ELSE IF mode = CHARGING THEN 0 - rate
             ELSE 0
    ELSE 0

---------------------------------------------------------------------------
(* core/services/device_service.py                                         *)

REQUIRED_PROPERTIES(device_type) ==
    CASE device_type = SOLAR_PANEL -> {"rated_capacity_watts"}
      [] device_type = BATTERY ->
            {"capacity_wh", "max_charge_rate_watts", "max_discharge_rate_watts"}
      [] device_type = ELECTRIC_VEHICLE ->
            {"battery_capacity_wh", "max_charge_rate_watts",
             "max_discharge_rate_watts"}
      [] device_type = APPLIANCE -> {"average_power_draw_watts"}
      [] OTHER -> {}

\* validate_device_type: TRUE when no error is raised
validate_device_type(device_type) == device_type \in DeviceType

\* A Python dict is a function, properties, with the sequence of its keys in
\* the order they were inserted, order.  KeyOrders is every such sequence.
KeyOrders(properties) ==
    {order \in [1..Cardinality(DOMAIN properties) -> DOMAIN properties] :
        \A i, j \in DOMAIN order : i # j => order[i] # order[j]}

\* validate_properties: the error raised, or "ok".  The type check comes
\* first, then the missing keys, and the negative values only when no key
\* is missing: the loop over properties.items() raises at the first key, in
\* the order of the dict, whose value is below 0, and names that key only.
validate_properties(device_type, properties, order) ==
    IF ~validate_device_type(device_type)
    THEN [kind |-> "UnknownDeviceType", keys |-> {}]
    ELSE LET missing == REQUIRED_PROPERTIES(device_type) \ DOMAIN properties
             negative == {i \in DOMAIN order : properties[order[i]] < 0}
         IN  IF missing # {}
             THEN [kind |-> "MissingProperty", keys |-> missing]
             ELSE IF negative # {}
             THEN [kind |-> "InvalidPropertyValue",
                   keys |-> {order[CHOOSE i \in negative :
                                       \A j \in negative : i <= j]}]
             ELSE [kind |-> "ok", keys |-> {}]

get_initial_state_swapped(device_type, properties) ==
    CASE device_type = SOLAR_PANEL -> [current_output_watts |-> 0]
      [] device_type = BATTERY ->
            [current_charge_wh |->
                TimesFourFifths(Get(properties, "capacity_wh", 0)),
             mode |-> IDLE,
             current_rate_watts |-> 0]
      [] device_type = ELECTRIC_VEHICLE ->
            [current_charge_wh |->
                TimesHalf(Get(properties, "battery_capacity_wh", 0)),
             mode |-> IDLE,
             current_rate_watts |-> 0]
      [] device_type = APPLIANCE ->
            [is_on |-> FALSE, current_power_draw_watts |-> 0]
      [] OTHER -> <<>>

get_initial_state(device_type, properties) ==
    CASE device_type = SOLAR_PANEL -> [current_output_watts |-> 0]
      [] device_type = BATTERY ->
            [current_charge_wh |-> TimesHalf(Get(properties, "capacity_wh", 0)),
             mode |-> IDLE,
             current_rate_watts |-> 0]
      [] device_type = ELECTRIC_VEHICLE ->
            [current_charge_wh |->
                TimesFourFifths(Get(properties, "battery_capacity_wh", 0)),
             mode |-> IDLE,
             current_rate_watts |-> 0]
      [] device_type = APPLIANCE ->
            [is_on |-> FALSE, current_power_draw_watts |-> 0]
      [] OTHER -> <<>>

register_device_unvalidated(device_type, properties, order) ==
    [ok |-> TRUE, error |-> "",
     device |-> Some([device_type |-> device_type,
                      is_active |-> TRUE,
                      properties |-> properties,
                      current_state |->
                          get_initial_state(device_type, properties)])]

\* register_device: the validation error, and the row to create when there
\* is none (is_active defaults to True)
register_device(device_type, properties, order) ==
    LET err == validate_properties(device_type, properties, order)
    IN  IF err.kind # "ok"
        THEN [ok |-> FALSE, error |-> err.kind, device |-> None]
        ELSE [ok |-> TRUE, error |-> "",
              device |-> Some([device_type |-> device_type,
                               is_active |-> TRUE,
                               properties |-> properties,
                               current_state |->
                                   get_initial_state(device_type, properties)])]


set_storage_mode_unclamped(device, mode, rate_watts) ==
    IF device.device_type \notin StorageTypes
    THEN [ok |-> FALSE, error |-> "NotAStorageDevice", device |-> device]
    ELSE IF mode \notin DeviceMode
    THEN [ok |-> FALSE, error |-> "UnknownMode", device |-> device]
    ELSE LET max_rate ==
                 IF mode = CHARGING
                 THEN Get(device.properties, "max_charge_rate_watts", 0)
                 ELSE IF mode = DISCHARGING
                 THEN Get(device.properties, "max_discharge_rate_watts", 0)
                 ELSE 0
             actual_rate ==
                 IF ~IsNone(rate_watts) THEN Val(rate_watts) ELSE max_rate
         IN  [ok |-> TRUE, error |-> "",
              device |-> [device EXCEPT !.current_state =
                  Update(device.current_state,
                         [mode |-> mode,
                          current_rate_watts |->
                              IF mode # IDLE THEN actual_rate ELSE 0])]]

set_storage_mode_unvalidated(device, mode, rate_watts) ==
    [ok |-> TRUE, error |-> "",
     device |-> [device EXCEPT !.current_state =
         Update(device.current_state,
                [mode |-> mode, current_rate_watts |-> 0])]]

\* set_storage_mode: the error raised, or the device as saved
set_storage_mode(device, mode, rate_watts) ==
    IF device.device_type \notin StorageTypes
    THEN [ok |-> FALSE, error |-> "NotAStorageDevice", device |-> device]
    ELSE IF mode \notin DeviceMode
    THEN [ok |-> FALSE, error |-> "UnknownMode", device |-> device]
    ELSE LET max_rate ==
                 IF mode = CHARGING
                 THEN Get(device.properties, "max_charge_rate_watts", 0)
                 ELSE IF mode = DISCHARGING
                 THEN Get(device.properties, "max_discharge_rate_watts", 0)
                 ELSE 0
             actual_rate ==
                 IF ~IsNone(rate_watts)
                 THEN IF max_rate > 0 THEN Min(Val(rate_watts), max_rate) ELSE 0
                 ELSE max_rate
         IN  [ok |-> TRUE, error |-> "",
              device |-> [device EXCEPT !.current_state =
                  Update(device.current_state,
                         [mode |-> mode,
                          current_rate_watts |->
                              IF mode # IDLE THEN actual_rate ELSE 0])]]

---------------------------------------------------------------------------
(* core/services/energy_service.py                                         *)

\* Python abs
Abs(x) == IF x < 0 THEN 0 - x ELSE x

\* Device.objects.filter(is_active=True) over a store, newest first, each
\* row with its id
ActiveRows(store) ==
    LET RECURSIVE Newest(_)
        Newest(n) ==
            IF n = 0 THEN <<>>
            ELSE IF store[n].is_active
            THEN <<[id |-> n, device |-> store[n]]>> \o Newest(n - 1)
            ELSE Newest(n - 1)
    IN  Newest(Len(store))

\* The StorageState get_energy_summary builds for a storage device
StorageState(id, device) ==
    [device_id |-> id,
     device_type |-> device.device_type,
     capacity_wh |-> CapacityOrZero(device),
     current_charge_wh |-> Get(device.current_state, "current_charge_wh", 0),
     charge_percentage |->
         IF IsNone(charge_percentage(device)) THEN 0
         ELSE Val(charge_percentage(device)),
     mode |-> Get(device.current_state, "mode", IDLE)]

\* The loop of get_energy_summary over rows k..Len(rows), from the totals
\* acc
RECURSIVE SummaryPass(_, _, _)
SummaryPass(rows, k, acc) ==
    IF k > Len(rows) THEN acc
    ELSE LET device == rows[k].device
             power == current_power_watts(device)
         IN  SummaryPass(rows, k + 1,
                 [total_production |->
                      IF power > 0 THEN acc.total_production + power
                      ELSE acc.total_production,
                  total_consumption |->
                      IF power > 0 THEN acc.total_consumption
                      ELSE IF power < 0
                      THEN acc.total_consumption + Abs(power)
                      ELSE acc.total_consumption,
                  storage_states |->
                      IF device.device_type \in StorageTypes
                      THEN Append(acc.storage_states,
                                  StorageState(rows[k].id, device))
                      ELSE acc.storage_states])

get_energy_summary_all_devices(store) ==
    LET rows == [k \in 1..Len(store) |->
                    [id |-> Len(store) + 1 - k,
                     device |-> store[Len(store) + 1 - k]]]
        acc == SummaryPass(rows, 1,
                   [total_production |-> 0, total_consumption |-> 0,
                    storage_states |-> <<>>])
    IN  [total_production_watts |-> acc.total_production,
         total_consumption_watts |-> acc.total_consumption,
         net_power_watts |-> acc.total_production - acc.total_consumption,
         storage_states |-> acc.storage_states]

\* EnergyService.get_energy_summary over a device store
get_energy_summary(store) ==
    LET acc == SummaryPass(ActiveRows(store), 1,
                   [total_production |-> 0, total_consumption |-> 0,
                    storage_states |-> <<>>])
    IN  [total_production_watts |-> acc.total_production,
         total_consumption_watts |-> acc.total_consumption,
         net_power_watts |-> acc.total_production - acc.total_consumption,
         storage_states |-> acc.storage_states]

---------------------------------------------------------------------------
(* core/services/telemetry_service.py                                      *)

\* timestamp.hour * 60 + timestamp.minute: the seconds are dropped
MinuteOfDay(timestamp) == ((timestamp % 86400) \div 60)

\* 1000 * exp(-(hour - 12)^2 / (2 * 4^2)), rounded, at the minutes of day of
\* Instants
SolarCurvePermille(minute) ==
    CASE minute = 359 -> 323
      [] minute = 605 -> 892
      [] minute = 640 -> 946
      [] minute = 670 -> 979
      [] minute = 720 -> 1000
      [] minute = 1200 -> 135

calculate_solar_output_unclamped(device, timestamp, variation) ==
    LET minute == MinuteOfDay(timestamp)
    IN  IF minute < SolarFirstHour * 60 \/ minute > SolarLastHour * 60
        THEN 0
        ELSE LET rated_capacity ==
                     Get(device.properties, "rated_capacity_watts", 0)
                 base_output == (rated_capacity * SolarCurvePermille(minute))
                                    \div 1000
             IN  (base_output * (100 + variation)) \div 100

\* calculate_solar_output; variation is the draw of random.uniform(-0.15,
\* 0.15) in percent
calculate_solar_output(device, timestamp, variation) ==
    LET minute == MinuteOfDay(timestamp)
    IN  IF minute < SolarFirstHour * 60 \/ minute > SolarLastHour * 60
        THEN 0
        ELSE LET rated_capacity ==
                     Get(device.properties, "rated_capacity_watts", 0)
                 base_output == (rated_capacity * SolarCurvePermille(minute))
                                    \div 1000
                 output == (base_output * (100 + variation)) \div 100
             IN  Max(0, Min(output, rated_capacity))

simulate_appliance_keeps_draw(device, u, v) ==
    LET current_on == Get(device.current_state, "is_on", FALSE)
        avg_power == Get(device.properties, "average_power_draw_watts", 0)
        is_on == IF current_on THEN u > APPLIANCE_OFF_PROBABILITY
                 ELSE u < APPLIANCE_ON_PROBABILITY
        power_draw == IF is_on THEN (avg_power * (100 + v)) \div 100
                      ELSE Get(device.current_state,
                               "current_power_draw_watts", 0)
    IN  [is_on |-> is_on, current_power_draw_watts |-> power_draw]

\* simulate_appliance; u is the draw of random.random() and v the draw of
\* random.uniform(-0.1, 0.1), both in percent
simulate_appliance(device, u, v) ==
    LET current_on == Get(device.current_state, "is_on", FALSE)
        avg_power == Get(device.properties, "average_power_draw_watts", 0)
        is_on == IF current_on THEN u > APPLIANCE_OFF_PROBABILITY
                 ELSE u < APPLIANCE_ON_PROBABILITY
        power_draw == IF is_on THEN (avg_power * (100 + v)) \div 100 ELSE 0
    IN  [is_on |-> is_on, current_power_draw_watts |-> power_draw]

update_storage_charge_hourly(device) ==
    LET mode == Get(device.current_state, "mode", IDLE)
        rate_watts == Get(device.current_state, "current_rate_watts", 0)
        current_charge == Get(device.current_state, "current_charge_wh", 0)
        capacity == CapacityOrZero(device)
        energy_delta == (rate_watts * SecondsPerHour) \div SecondsPerHour
    IN  IF mode = CHARGING
        THEN Min(current_charge + energy_delta, capacity)
        ELSE IF mode = DISCHARGING
        THEN Max(current_charge - energy_delta, TimesTenth(capacity))
        ELSE current_charge

update_storage_charge(device) ==
    LET mode == Get(device.current_state, "mode", IDLE)
        rate_watts == Get(device.current_state, "current_rate_watts", 0)
        current_charge == Get(device.current_state, "current_charge_wh", 0)
        capacity == CapacityOrZero(device)
        energy_delta == (rate_watts * DurationSeconds) \div SecondsPerHour
    IN  IF mode = CHARGING
        THEN Min(current_charge + energy_delta, capacity)
        ELSE IF mode = DISCHARGING
        THEN Max(current_charge - energy_delta, TimesTenth(capacity))
        ELSE current_charge

should_auto_idle_strict(device, new_charge) ==
    LET capacity == CapacityOrZero(device)
        mode == Get(device.current_state, "mode", IDLE)
    IN  \/ mode = CHARGING /\ new_charge > capacity
        \/ mode = DISCHARGING /\ new_charge < TimesTenth(capacity)

should_auto_idle(device, new_charge) ==
    LET capacity == CapacityOrZero(device)
        mode == Get(device.current_state, "mode", IDLE)
    IN  \/ mode = CHARGING /\ new_charge >= capacity
        \/ mode = DISCHARGING /\ new_charge <= TimesTenth(capacity)

simulate_device_self_discharge(device, timestamp, draw) ==
    IF device.device_type = SOLAR_PANEL
    THEN [current_output_watts |->
              calculate_solar_output(device, timestamp, draw.v)]
    ELSE IF device.device_type = APPLIANCE
    THEN simulate_appliance(device, draw.u, draw.v)
    ELSE IF device.device_type \in StorageTypes
    THEN LET new_charge == update_storage_charge(device) - 1
             new_state == Update(device.current_state,
                                 [current_charge_wh |-> new_charge])
         IN  IF should_auto_idle(device, new_charge)
             THEN Update(new_state,
                         [mode |-> IDLE, current_rate_watts |-> 0])
             ELSE new_state
    ELSE device.current_state

\* simulate_device: the state patch of one device for one tick
simulate_device(device, timestamp, draw) ==
    IF device.device_type = SOLAR_PANEL
    THEN [current_output_watts |->
              calculate_solar_output(device, timestamp, draw.v)]
    ELSE IF device.device_type = APPLIANCE
    THEN simulate_appliance(device, draw.u, draw.v)
    ELSE IF device.device_type \in StorageTypes
    THEN LET new_charge == update_storage_charge(device)
             new_state == Update(device.current_state,
                                 [current_charge_wh |-> new_charge])
         IN  IF should_auto_idle(device, new_charge)
             THEN Update(new_state,
                         [mode |-> IDLE, current_rate_watts |-> 0])
             ELSE new_state
    ELSE device.current_state

Reading_unsigned(id, device, timestamp) ==
    [device |-> id,
     timestamp |-> timestamp,
     power_watts |-> Abs(current_power_watts(device)),
     charge_wh |->
        IF device.device_type \in StorageTypes
           /\ "current_charge_wh" \in DOMAIN device.current_state
        THEN Some(device.current_state["current_charge_wh"])
        ELSE None,
     state_snapshot |-> device.current_state]

\* The row record_telemetry writes for a device
Reading(id, device, timestamp) ==
    [device |-> id,
     timestamp |-> timestamp,
     power_watts |-> current_power_watts(device),
     charge_wh |->
        IF device.device_type \in StorageTypes
           /\ "current_charge_wh" \in DOMAIN device.current_state
        THEN Some(device.current_state["current_charge_wh"])
        ELSE None,
     state_snapshot |-> device.current_state]

\* The rows of a table that hold a (device, timestamp) pair
Matching(table, id, timestamp) ==
    {i \in 1..Len(table) :
        table[i].device = id /\ table[i].timestamp = timestamp}

update_or_create_keeps_old(table, row) ==
    IF Matching(table, row.device, row.timestamp) # {}
    THEN table
    ELSE Append(table, row)

\* TelemetryReading.objects.update_or_create(device, timestamp, defaults)
update_or_create(table, row) ==
    LET found == Matching(table, row.device, row.timestamp)
    IN  IF found # {}
        THEN [i \in 1..Len(table) |-> IF i \in found THEN row ELSE table[i]]
        ELSE Append(table, row)

\* Whether writing row replaces a row that holds other values
Replaces(table, row) ==
    \E i \in Matching(table, row.device, row.timestamp) : table[i] # row

\* record_telemetry: the reading table after the call
record_telemetry(table, id, device, timestamp) ==
    update_or_create(table, Reading(id, device, timestamp))


\* The sum of f over a set of its arguments
RECURSIVE SumOver(_, _)
SumOver(S, f) ==
    IF S = {} THEN 0
    ELSE LET i == CHOOSE x \in S : TRUE
         IN  f[i] + SumOver(S \ {i}, f)

\* TruncHour, TruncDay, TruncWeek, TruncMonth of django.db.models.functions
\* on a timestamp in seconds of local time since the midnight that starts
\* Monday 1 January 2024: a week starts on its Monday, a month on its first
\* day (MonthStartDays: the first days of the months of 2024)
TruncHour(timestamp) == timestamp - (timestamp % 3600)
TruncDay(timestamp) == timestamp - (timestamp % 86400)
TruncWeek(timestamp) == timestamp - (timestamp % 604800)
MonthStartDays == <<0, 31, 60, 91, 121, 152, 182, 213, 244, 274, 305, 335>>
TruncMonth(timestamp) ==
    LET day == timestamp \div 86400
        month == CHOOSE k \in 1..12 :
                     /\ MonthStartDays[k] <= day
                     /\ k < 12 => day < MonthStartDays[k + 1]
    IN  MonthStartDays[month] * 86400

\* {'hour': TruncHour, ...}.get(interval, TruncHour), applied
truncate_fn(interval, timestamp) ==
    CASE interval = "hour" -> TruncHour(timestamp)
      [] interval = "day" -> TruncDay(timestamp)
      [] interval = "week" -> TruncWeek(timestamp)
      [] interval = "month" -> TruncMonth(timestamp)
      [] OTHER -> TruncHour(timestamp)

get_telemetry_aggregated_end_exclusive(table, id, start_time, end_time, interval) ==
    LET selected == {i \in 1..Len(table) :
                        /\ table[i].device = id
                        /\ table[i].timestamp >= start_time
                        /\ table[i].timestamp < end_time}
        period == [i \in selected |-> truncate_fn(interval, table[i].timestamp)]
        power == [i \in selected |-> table[i].power_watts]
        Bucket(p) ==
            LET rows == {i \in selected : period[i] = p}
                charged == {i \in rows : ~IsNone(table[i].charge_wh)}
                charge == [i \in charged |-> Val(table[i].charge_wh)]
            IN  [period |-> p,
                 avg_power |-> SumOver(rows, power) \div Cardinality(rows),
                 max_power |-> CHOOSE x \in {power[i] : i \in rows} :
                                   \A i \in rows : power[i] <= x,
                 min_power |-> CHOOSE x \in {power[i] : i \in rows} :
                                   \A i \in rows : power[i] >= x,
                 avg_charge |->
                     IF charged = {} THEN None
                     ELSE Some(SumOver(charged, charge)
                                   \div Cardinality(charged))]
        RECURSIVE Ordered(_)
        Ordered(P) ==
            IF P = {} THEN <<>>
            ELSE LET p == CHOOSE x \in P : \A y \in P : x <= y
                 IN  <<Bucket(p)>> \o Ordered(P \ {p})
    IN  Ordered({period[i] : i \in selected})

get_telemetry_aggregated_descending(table, id, start_time, end_time, interval) ==
    LET selected == {i \in 1..Len(table) :
                        /\ table[i].device = id
                        /\ table[i].timestamp >= start_time
                        /\ table[i].timestamp <= end_time}
        period == [i \in selected |-> truncate_fn(interval, table[i].timestamp)]
        power == [i \in selected |-> table[i].power_watts]
        Bucket(p) ==
            LET rows == {i \in selected : period[i] = p}
                charged == {i \in rows : ~IsNone(table[i].charge_wh)}
                charge == [i \in charged |-> Val(table[i].charge_wh)]
            IN  [period |-> p,
                 avg_power |-> SumOver(rows, power) \div Cardinality(rows),
                 max_power |-> CHOOSE x \in {power[i] : i \in rows} :
                                   \A i \in rows : power[i] <= x,
                 min_power |-> CHOOSE x \in {power[i] : i \in rows} :
                                   \A i \in rows : power[i] >= x,
                 avg_charge |->
                     IF charged = {} THEN None
                     ELSE Some(SumOver(charged, charge)
                                   \div Cardinality(charged))]
        RECURSIVE Ordered(_)
        Ordered(P) ==
            IF P = {} THEN <<>>
            ELSE LET p == CHOOSE x \in P : \A y \in P : x >= y
                 IN  <<Bucket(p)>> \o Ordered(P \ {p})
    IN  Ordered({period[i] : i \in selected})

\* get_telemetry_aggregated: the readings of a device in [start_time,
\* end_time], grouped by their truncated timestamp, one bucket per group with
\* Avg, Max and Min of power_watts and Avg of the charge_wh that are not
\* NULL, ordered by period.  Avg is sum / count, which is whole on the
\* readings the model draws.
get_telemetry_aggregated(table, id, start_time, end_time, interval) ==
    LET selected == {i \in 1..Len(table) :
                        /\ table[i].device = id
                        /\ table[i].timestamp >= start_time
                        /\ table[i].timestamp <= end_time}
        period == [i \in selected |-> truncate_fn(interval, table[i].timestamp)]
        power == [i \in selected |-> table[i].power_watts]
        Bucket(p) ==
            LET rows == {i \in selected : period[i] = p}
                charged == {i \in rows : ~IsNone(table[i].charge_wh)}
                charge == [i \in charged |-> Val(table[i].charge_wh)]
            IN  [period |-> p,
                 avg_power |-> SumOver(rows, power) \div Cardinality(rows),
                 max_power |-> CHOOSE x \in {power[i] : i \in rows} :
                                   \A i \in rows : power[i] <= x,
                 min_power |-> CHOOSE x \in {power[i] : i \in rows} :
                                   \A i \in rows : power[i] >= x,
                 avg_charge |->
                     IF charged = {} THEN None
                     ELSE Some(SumOver(charged, charge)
                                   \div Cardinality(charged))]
        RECURSIVE Ordered(_)
        Ordered(P) ==
            IF P = {} THEN <<>>
            ELSE LET p == CHOOSE x \in P : \A y \in P : x <= y
                 IN  <<Bucket(p)>> \o Ordered(P \ {p})
    IN  Ordered({period[i] : i \in selected})

---------------------------------------------------------------------------
(* Inputs of the operations.                                               *)

\* The instants at which the beat schedule starts a task, in seconds since
\* the midnight that starts Monday 1 January 2024: 20:00:30 of that day,
\* then, more than 30 days later, 10:05, 10:40, 11:10 and 12:00 of Friday
\* 2 February, 05:59:30 of the day after and 12:00 of Sunday 4 February
Instants == <<72030, 2801100, 2803200, 2805000, 2808000, 2872770, 2980800>>

Workers == 1..MaxWorkers

\* The arguments of RegisterDevice the model tries
RegisterInputs ==
    { [device_type |-> SOLAR_PANEL,
       properties |-> [rated_capacity_watts |-> 1000],
       order |-> <<"rated_capacity_watts">>],
      [device_type |-> BATTERY,
       properties |-> [capacity_wh |-> 10, max_charge_rate_watts |-> 240,
                       max_discharge_rate_watts |-> 240],
       order |-> <<"capacity_wh", "max_charge_rate_watts",
                   "max_discharge_rate_watts">>],
      [device_type |-> ELECTRIC_VEHICLE,
       properties |-> [battery_capacity_wh |-> 20,
                       max_charge_rate_watts |-> 60,
                       max_discharge_rate_watts |-> 0],
       order |-> <<"battery_capacity_wh", "max_charge_rate_watts",
                   "max_discharge_rate_watts">>],
      [device_type |-> APPLIANCE,
       properties |-> [average_power_draw_watts |-> 100],
       order |-> <<"average_power_draw_watts">>],
      [device_type |-> "heat_pump",
       properties |-> [rated_capacity_watts |-> 1000],
       order |-> <<"rated_capacity_watts">>],
      [device_type |-> BATTERY,
       properties |-> [capacity_wh |-> 10],
       order |-> <<"capacity_wh">>],
      [device_type |-> BATTERY,
       properties |-> [capacity_wh |-> 0 - 10, max_charge_rate_watts |-> 120,
                       max_discharge_rate_watts |-> 120],
       order |-> <<"capacity_wh", "max_charge_rate_watts",
                   "max_discharge_rate_watts">>],
      [device_type |-> BATTERY,
       properties |-> [capacity_wh |-> 0 - 10, max_charge_rate_watts |-> 0 - 60,
                       max_discharge_rate_watts |-> 240],
       order |-> <<"capacity_wh", "max_charge_rate_watts",
                   "max_discharge_rate_watts">>],
      [device_type |-> BATTERY,
       properties |-> [capacity_wh |-> 0 - 10, max_charge_rate_watts |-> 240,
                       max_discharge_rate_watts |-> 0 - 60],
       order |-> <<"max_discharge_rate_watts", "max_charge_rate_watts",
                   "capacity_wh">>],
      [device_type |-> SOLAR_PANEL,
       properties |-> [rated_capacity_watts |-> 1000, capacity_wh |-> 10],
       order |-> <<"rated_capacity_watts", "capacity_wh">>],
      [device_type |-> BATTERY,
       properties |-> [capacity_wh |-> 0 - 10],
       order |-> <<"capacity_wh">>] }

\* The modes and rates SetStorageMode is called with
ModeInputs == DeviceMode \cup {"standby"}
RateInputs == {None, Some(0 - 480), Some(0), Some(120), Some(480)}

\* The random draws of one device in one tick, in percent: u of
\* random.random(), v of random.uniform
NoDraw == [u |-> 0, v |-> 0]
DrawsFor(device_type) ==
    IF device_type = SOLAR_PANEL
    THEN {[u |-> 0, v |-> v] : v \in {0 - SOLAR_VARIATION, SOLAR_VARIATION}}
    ELSE IF device_type = APPLIANCE
    THEN {[u |-> u, v |-> v] :
              u \in {10, 50},
              v \in {0 - APPLIANCE_POWER_VARIANCE, APPLIANCE_POWER_VARIANCE}}
    ELSE {NoDraw}
AllDraws == UNION {DrawsFor(t) : t \in DeviceType}

\* The patches update_device_state is called with
StateInputs == {[current_charge_wh |-> 3, firmware |-> 7]}

\* The values of days_to_keep cleanup_old_telemetry is called with: its
\* default, and 0
DaysInputs == {30, 0}

\* The rows manage.py seed creates, in the order of its list.  The rows are
\* built in the command, not by register_device: the refrigerator starts
\* switched on.
SeededDevices ==
    << [device_type |-> SOLAR_PANEL, is_active |-> TRUE,
        properties |-> [rated_capacity_watts |-> 5000],
        current_state |-> [current_output_watts |-> 0]],
       [device_type |-> SOLAR_PANEL, is_active |-> TRUE,
        properties |-> [rated_capacity_watts |-> 2000],
        current_state |-> [current_output_watts |-> 0]],
       [device_type |-> BATTERY, is_active |-> TRUE,
        properties |-> [capacity_wh |-> 13500,
                        max_charge_rate_watts |-> 5000,
                        max_discharge_rate_watts |-> 5000],
        current_state |-> [current_charge_wh |-> 6750, mode |-> IDLE,
                           current_rate_watts |-> 0]],
       [device_type |-> ELECTRIC_VEHICLE, is_active |-> TRUE,
        properties |-> [battery_capacity_wh |-> 75000,
                        max_charge_rate_watts |-> 11000,
                        max_discharge_rate_watts |-> 7000],
        current_state |-> [current_charge_wh |-> 60000, mode |-> IDLE,
                           current_rate_watts |-> 0]],
       [device_type |-> APPLIANCE, is_active |-> TRUE,
        properties |-> [average_power_draw_watts |-> 3000],
        current_state |-> [is_on |-> FALSE, current_power_draw_watts |-> 0]],
       [device_type |-> APPLIANCE, is_active |-> TRUE,
        properties |-> [average_power_draw_watts |-> 1800],
        current_state |-> [is_on |-> FALSE, current_power_draw_watts |-> 0]],
       [device_type |-> APPLIANCE, is_active |-> TRUE,
        properties |-> [average_power_draw_watts |-> 4500],
        current_state |-> [is_on |-> FALSE, current_power_draw_watts |-> 0]],
       [device_type |-> APPLIANCE, is_active |-> TRUE,
        properties |-> [average_power_draw_watts |-> 150],
        current_state |-> [is_on |-> TRUE,
                           current_power_draw_watts |-> 150]] >>

\* The most devices the store holds: those registered between the two
\* statements of the seed command, and those the command creates
MaxStore == MaxDevices + Len(SeededDevices)

\* A device as register_device creates it
Registered(device_type, properties) ==
    Val(register_device(device_type, properties,
                        CHOOSE order \in KeyOrders(properties) : TRUE).device)

\* A device after a tick has merged the patch of simulate_device into it
AfterTick(device, timestamp, draw) ==
    [device EXCEPT !.current_state =
        Update(device.current_state,
               simulate_device(device, timestamp, draw))]

\* A device after a set_storage_mode that succeeds
AfterMode(device, mode, rate_watts) ==
    set_storage_mode(device, mode, rate_watts).device

\* A device an administrator has deactivated
Deactivated(device) == [device EXCEPT !.is_active = FALSE]

\* Device rows the energy summary is tried on: a solar panel before and
\* after the tick of 10:05, an appliance off and on, a battery that charges,
\* one that discharges, one set to charge at a negative rate, an electric
\* vehicle as registered, a battery of capacity 0, and each of them
\* deactivated
SummaryRows ==
    LET solar == Registered(SOLAR_PANEL, [rated_capacity_watts |-> 1000])
        appliance == Registered(APPLIANCE, [average_power_draw_watts |-> 100])
        battery == Registered(BATTERY,
                       [capacity_wh |-> 10, max_charge_rate_watts |-> 240,
                        max_discharge_rate_watts |-> 240])
        vehicle == Registered(ELECTRIC_VEHICLE,
                       [battery_capacity_wh |-> 20,
                        max_charge_rate_watts |-> 60,
                        max_discharge_rate_watts |-> 0])
        active ==
            { solar,
              AfterTick(solar, Instants[2], [u |-> 0, v |-> 0 - SOLAR_VARIATION]),
              appliance,
              AfterTick(appliance, Instants[1],
                        [u |-> 10, v |-> APPLIANCE_POWER_VARIANCE]),
              AfterTick(AfterMode(battery, CHARGING, Some(120)),
                        Instants[1], NoDraw),
              AfterMode(battery, DISCHARGING, None),
              AfterMode(battery, CHARGING, Some(0 - 480)),
              vehicle,
              Registered(BATTERY,
                  [capacity_wh |-> 0, max_charge_rate_watts |-> 240,
                   max_discharge_rate_watts |-> 240]) }
    IN  active \cup {Deactivated(d) : d \in active}

\* The stores of at most MaxDevices of these rows
SummaryStores ==
    UNION {[1..n -> SummaryRows] : n \in 0..MaxDevices}

\* A device whose current_state an administrator has given one more key (the
\* admin form edits the JSON of current_state)
WithNote(device) ==
    [device EXCEPT !.current_state = Update(@, [firmware |-> 7])]

\* Device rows the tick is tried on: those of the energy summary, and a
\* solar panel, an appliance and a battery with one more state key
TickRows ==
    SummaryRows \cup
    { WithNote(Registered(SOLAR_PANEL, [rated_capacity_watts |-> 1000])),
      WithNote(Registered(APPLIANCE, [average_power_draw_watts |-> 100])),
      WithNote(Registered(BATTERY,
                   [capacity_wh |-> 10, max_charge_rate_watts |-> 240,
                    max_discharge_rate_watts |-> 240])) }

\* The stores of at most MaxDevices of these rows
TickStores ==
    UNION {[1..n -> TickRows] : n \in 0..MaxDevices}

\* The storage devices of TickRows that are active, and the stores of one to
\* MaxDevices of them
ModeRows == {d \in TickRows : d.device_type \in StorageTypes /\ d.is_active}
ModeStores ==
    UNION {[1..n -> ModeRows] : n \in 1..MaxDevices}

\* Storage devices as a set_storage_mode that succeeds leaves them, in mode
\* Charging or Discharging: a battery and an electric vehicle as registered,
\* each mode, each rate of RateInputs
LiveRows ==
    LET battery == Registered(BATTERY,
                       [capacity_wh |-> 10, max_charge_rate_watts |-> 240,
                        max_discharge_rate_watts |-> 240])
        vehicle == Registered(ELECTRIC_VEHICLE,
                       [battery_capacity_wh |-> 20,
                        max_charge_rate_watts |-> 60,
                        max_discharge_rate_watts |-> 0])
    IN  {AfterMode(d, mode, rate) :
             d \in {battery, vehicle}, mode \in {CHARGING, DISCHARGING},
             rate \in RateInputs}

\* The stores of one of these rows
LiveStores == {<<d>> : d \in LiveRows}

\* The devices whose readings the aggregation is tried on: a battery of
\* 600 Wh and an appliance of 600 W
AggregateBattery ==
    Registered(BATTERY, [capacity_wh |-> 600, max_charge_rate_watts |-> 7200,
                         max_discharge_rate_watts |-> 7200])
AggregateAppliance ==
    Registered(APPLIANCE, [average_power_draw_watts |-> 600])

\* Readings of these devices, as ticks at six instants record them: 10:05,
\* 10:40 and 11:10 of Tuesday 2 January 2024, 05:59:30 of Wednesday 3,
\* 12:00 of Tuesday 9 and 00:00 of Thursday 1 February.  The battery charges
\* at 3600 W, then at 7200 W, discharges at 3600 W, idles, discharges at
\* 7200 W and charges at 3600 W; the appliance is on at 10:40 and off at
\* 11:10.
AggregateReadings ==
    LET b1 == AfterTick(AfterMode(AggregateBattery, CHARGING, Some(3600)),
                        122700, NoDraw)
        b2 == AfterTick(AfterMode(b1, CHARGING, Some(7200)), 124800, NoDraw)
        b3 == AfterTick(AfterMode(b2, DISCHARGING, Some(3600)), 126600, NoDraw)
        b4 == AfterTick(AfterMode(b3, IDLE, None), 194370, NoDraw)
        b5 == AfterTick(AfterMode(b4, DISCHARGING, Some(7200)), 734400, NoDraw)
        b6 == AfterTick(AfterMode(b5, CHARGING, Some(3600)), 2678400, NoDraw)
        a2 == AfterTick(AggregateAppliance, 124800,
                        [u |-> 10, v |-> APPLIANCE_POWER_VARIANCE])
        a3 == AfterTick(a2, 126600, [u |-> 10, v |-> APPLIANCE_POWER_VARIANCE])
    IN  << Reading(1, b1, 122700),
           Reading(1, b2, 124800), Reading(2, a2, 124800),
           Reading(1, b3, 126600), Reading(2, a3, 126600),
           Reading(1, b4, 194370),
           Reading(1, b5, 734400),
           Reading(1, b6, 2678400) >>

\* The reading tables: the ticks that ran, in their order
AggregateTables ==
    LET RECURSIVE Pick(_, _)
        Pick(S, k) ==
            IF k > Len(AggregateReadings) THEN <<>>
            ELSE IF k \in S THEN <<AggregateReadings[k]>> \o Pick(S, k + 1)
            ELSE Pick(S, k + 1)
    IN  {Pick(S, 1) : S \in SUBSET (1..Len(AggregateReadings))}

\* The arguments get_telemetry_aggregated is called with
StartInputs == {0, 122700, 124801}
EndInputs == {126600, 194370, 2678400}
IntervalInputs == {"hour", "day", "week", "month", "minute"}

---------------------------------------------------------------------------
(* The state.                                                              *)

IdleTick == [pc |-> "idle", timestamp |-> 0, devices |-> <<>>, next |-> 1]
IdleSsm == [pc |-> "idle", id |-> 0, device |-> None]
IdleSeed == [pc |-> "idle", between |-> 0, runs |-> 0]

\* Whether the seed command is between its two statements.  An operation
\* that starts there is one of the MaxBetween the model interleaves with
\* the command.
Between == seed.pc = "cleared"

Init ==
    /\ devices = <<>>
    /\ readings = <<>>
    /\ clock = 0
    /\ ticks = [w \in Workers |-> IdleTick]
    /\ ssm = IdleSsm
    /\ last = [op |-> "init"]
    /\ calls = 0
    /\ seed = IdleSeed

ActiveDevices_all ==
    LET ids == 1..Len(devices)
        RECURSIVE Newest(_)
        Newest(S) ==
            IF S = {} THEN <<>>
            ELSE LET i == CHOOSE x \in S : \A y \in S : y <= x
                 IN  <<[id |-> i, device |-> devices[i], pre |-> devices[i]]>>
                        \o Newest(S \ {i})
    IN  Newest(ids)

\* Device.objects.filter(is_active=True), newest first (Meta.ordering)
ActiveDevices ==
    LET ids == {i \in 1..Len(devices) : devices[i].is_active}
        RECURSIVE Newest(_)
        Newest(S) ==
            IF S = {} THEN <<>>
            ELSE LET i == CHOOSE x \in S : \A y \in S : y <= x
                 IN  <<[id |-> i, device |-> devices[i], pre |-> devices[i]]>>
                        \o Newest(S \ {i})
    IN  Newest(ids)

---------------------------------------------------------------------------
(* DeviceService.register_device, as RegisterDevice.mutate of schema.py     *)
(* calls it with the dict it builds                                        *)

RegisterDevice(input) ==
    /\ Len(devices) < MaxDevices
    /\ Between => seed.between < MaxBetween
    /\ seed' = IF Between THEN [seed EXCEPT !.between = @ + 1] ELSE seed
    /\ LET res == register_device(input.device_type, input.properties,
                               input.order)
       IN  /\ devices' = IF res.ok THEN Append(devices, Val(res.device))
                         ELSE devices
           /\ last' = [op |-> "register_device", input |-> input,
                       ok |-> res.ok,
                       error |-> validate_properties(input.device_type,
                                                     input.properties,
                                                     input.order)]
    /\ UNCHANGED <<readings, clock, ticks, ssm, calls>>

---------------------------------------------------------------------------
(* schema.py SetStorageMode.mutate: Device.objects.get, then               *)
(* DeviceService.set_storage_mode, which saves current_state               *)

\* device = Device.objects.get(id=device_id); an unknown id ends the
\* mutation with "Device not found" and changes nothing
SetStorageModeGet(id) ==
    /\ ssm.pc = "idle"
    /\ calls < MaxCalls
    /\ calls' = calls + 1
    /\ id \in 1..Len(devices)
    /\ ssm' = [pc |-> "loaded", id |-> id, device |-> Some(devices[id])]
    /\ UNCHANGED <<devices, readings, clock, ticks, last, seed>>

\* DeviceService.set_storage_mode(device, mode_str, rate_watts) on the
\* device fetched.  The arguments of the mutation are read here first, so
\* the model draws them here.  When the row is gone (id 0, after the seed
\* command deleted it) save(update_fields=...) updates no row and raises
\* DatabaseError, which mutate catches: success is False.  The model tries
\* the arguments that leave a rate on the grid of the whole charge steps.
SetStorageModeApply(mode, rate_watts) ==
    /\ ssm.pc = "loaded"
    /\ LET res == set_storage_mode(Val(ssm.device), mode, rate_watts)
           saved == res.ok /\ ssm.id # 0
       IN  /\ res.ok => res.device.current_state["current_rate_watts"] % 60 = 0
           /\ devices' =
                IF saved
                THEN [devices EXCEPT ![ssm.id].current_state =
                          res.device.current_state]
                ELSE devices
           /\ last' = [op |-> "set_storage_mode", id |-> ssm.id,
                       mode |-> mode, rate_watts |-> rate_watts,
                       ok |-> saved]
    /\ ssm' = IdleSsm
    /\ UNCHANGED <<readings, clock, ticks, calls, seed>>

---------------------------------------------------------------------------
(* core/tasks.py simulate_telemetry, one worker's run of it                *)

\* Whether a run of the task is in flight on some worker
Overlaps == \E v \in Workers : ticks[v].pc # "idle"

\* Whether a run that starts now loads rows the seed command created: only
\* that command takes the store past MaxDevices rows
LoadsSeeded == Len(devices) > MaxDevices

\* The beat schedule hands a run to a worker that is free, the first of
\* them.  A run that starts while another is in flight is one of the
\* MaxCalls operations the model interleaves, one that starts between the
\* statements of the seed command is one of the MaxBetween, and the model
\* follows MaxSeededRuns runs over the rows of the seed command.
Starts(w) ==
    /\ ticks[w].pc = "idle"
    /\ \A v \in Workers : v < w => ticks[v].pc # "idle"
    /\ Overlaps => calls < MaxCalls
    /\ calls' = IF Overlaps THEN calls + 1 ELSE calls
    /\ LoadsSeeded => seed.runs < MaxSeededRuns
    /\ Between => seed.between < MaxBetween
    /\ seed' = IF LoadsSeeded THEN [seed EXCEPT !.runs = @ + 1]
               ELSE IF Between THEN [seed EXCEPT !.between = @ + 1]
               ELSE seed

\* timestamp = timezone.now(); devices = list(filter(is_active=True))
TickLoad(w) ==
    /\ Starts(w)
    /\ clock < MaxClock
    /\ clock' = clock + 1
    /\ ticks' = [ticks EXCEPT ![w] =
                    [pc |-> "loaded", timestamp |-> Instants[clock + 1],
                     devices |-> ActiveDevices, next |-> 1]]
    /\ last' = [op |-> "simulate_telemetry_started",
                timestamp |-> Instants[clock + 1]]
    /\ UNCHANGED <<devices, readings, ssm>>

\* What the loop can leave in the list from its k-th entry on: one patch of
\* simulate_device per device, for each draw of its type
RECURSIVE SimulatedLists(_, _, _)
SimulatedLists(entries, timestamp, k) ==
    IF k > Len(entries) THEN {<<>>}
    ELSE LET e == entries[k]
             heads == {[e EXCEPT !.device.current_state =
                           Update(e.device.current_state,
                                  simulate_device(e.device, timestamp, draw))] :
                          draw \in DrawsFor(e.device.device_type)}
         IN  {<<h>> \o rest : h \in heads,
                               rest \in SimulatedLists(entries, timestamp, k + 1)}

\* for device in devices: device.current_state.update(simulate_device(...))
TickSimulate(w) ==
    /\ ticks[w].pc = "loaded"
    /\ \E after \in SimulatedLists(ticks[w].devices, ticks[w].timestamp, 1) :
           ticks' = [ticks EXCEPT ![w].pc = "simulated",
                                  ![w].devices = after]
    /\ UNCHANGED <<devices, readings, clock, ssm, last, calls, seed>>

\* simulate_device raises for the k-th device of the loop: the loop has no
\* try, so the exception ends the task before bulk_update and before any
\* record_telemetry, and what the loop computed for the devices before the
\* k-th is dropped with the task's memory
TickSimulateRaises(w, k) ==
    /\ ticks[w].pc = "loaded"
    /\ k \in 1..Len(ticks[w].devices)
    /\ ticks' = [ticks EXCEPT ![w] = IdleTick]
    /\ last' = [op |-> "tick_failed",
                timestamp |-> ticks[w].timestamp,
                failed |-> ticks[w].devices[k].id,
                others |-> {ticks[w].devices[j].id :
                               j \in 1..Len(ticks[w].devices) \ {k}}]
    /\ UNCHANGED <<devices, readings, clock, ssm, calls, seed>>

\* Device.objects.bulk_update(devices, ['current_state', 'updated_at'])
TickBulkUpdate(w) ==
    /\ ticks[w].pc = "simulated"
    /\ LET loc == ticks[w].devices
           Written(i) == {k \in 1..Len(loc) : loc[k].id = i}
       IN  devices' =
               [i \in 1..Len(devices) |->
                   IF Written(i) = {} THEN devices[i]
                   ELSE [devices[i] EXCEPT !.current_state =
                            loc[CHOOSE k \in Written(i) : TRUE]
                                .device.current_state]]
    /\ ticks' = [ticks EXCEPT ![w].pc = "updated"]
    /\ last' = [op |-> "bulk_update", worker |-> w]
    /\ UNCHANGED <<readings, clock, ssm, calls, seed>>

\* for device in devices: record_telemetry(device, timestamp), one device
TickRecord(w) ==
    /\ ticks[w].pc = "updated"
    /\ ticks[w].next <= Len(ticks[w].devices)
    /\ ticks[w].devices[ticks[w].next].id # 0
    /\ LET e == ticks[w].devices[ticks[w].next]
       IN  /\ readings' = record_telemetry(readings, e.id, e.device,
                                           ticks[w].timestamp)
           /\ last' = [op |-> "record_telemetry",
                       device |-> e.device,
                       row |-> Reading(e.id, e.device, ticks[w].timestamp),
                       replaced |-> Replaces(readings,
                           Reading(e.id, e.device, ticks[w].timestamp))]
    /\ ticks' = [ticks EXCEPT ![w].next = @ + 1]
    /\ UNCHANGED <<devices, clock, ssm, calls, seed>>

\* record_telemetry for a device whose row is gone (id 0, after the seed
\* command deleted it): the INSERT breaks the foreign key of
\* TelemetryReading.device, update_or_create raises IntegrityError and the
\* task ends there
TickRecordFails(w) ==
    /\ ticks[w].pc = "updated"
    /\ ticks[w].next <= Len(ticks[w].devices)
    /\ ticks[w].devices[ticks[w].next].id = 0
    /\ ticks' = [ticks EXCEPT ![w] = IdleTick]
    /\ last' = [op |-> "tick_record_failed",
                timestamp |-> ticks[w].timestamp]
    /\ UNCHANGED <<devices, readings, clock, ssm, calls, seed>>

\* return f"Simulated telemetry for {len(devices)} devices ..."
TickReturn(w) ==
    /\ ticks[w].pc = "updated"
    /\ ticks[w].next > Len(ticks[w].devices)
    /\ ticks' = [ticks EXCEPT ![w] = IdleTick]
    /\ last' = [op |-> "simulate_telemetry",
                timestamp |-> ticks[w].timestamp,
                processed |-> ticks[w].devices]
    /\ UNCHANGED <<devices, readings, clock, ssm, calls, seed>>

\* The task is revoked, its worker is killed or a statement raises: the
\* run ends where it is, and what it committed stays (no transaction spans it)
TickCancel(w) ==
    /\ ticks[w].pc \in {"loaded", "simulated", "updated"}
    /\ ticks' = [ticks EXCEPT ![w] = IdleTick]
    /\ last' = [op |-> "tick_cancelled",
                timestamp |-> ticks[w].timestamp,
                stage |-> ticks[w].pc,
                processed |-> ticks[w].devices]
    /\ UNCHANGED <<devices, readings, clock, ssm, calls, seed>>

---------------------------------------------------------------------------
(* TelemetryService.record_telemetry called on its own, with a device just *)
(* fetched and a timestamp of the caller                                   *)

RecordTelemetry(id, timestamp) ==
    /\ id \in 1..Len(devices)
    /\ calls < MaxCalls
    /\ calls' = calls + 1
    /\ readings' = record_telemetry(readings, id, devices[id], timestamp)
    /\ last' = [op |-> "record_telemetry",
                device |-> devices[id],
                row |-> Reading(id, devices[id], timestamp),
                replaced |-> Replaces(readings,
                    Reading(id, devices[id], timestamp))]
    /\ UNCHANGED <<devices, clock, ticks, ssm, seed>>

---------------------------------------------------------------------------
(* DeviceService.update_device_state on a device just fetched: the patch   *)
(* is merged into current_state and the row is saved                       *)

UpdateDeviceState(id, new_state) ==
    /\ id \in 1..Len(devices)
    /\ calls < MaxCalls
    /\ calls' = calls + 1
    /\ devices' = [devices EXCEPT ![id].current_state = Update(@, new_state)]
    /\ last' = [op |-> "update_device_state", id |-> id,
                new_state |-> new_state]
    /\ UNCHANGED <<readings, clock, ticks, ssm, seed>>

---------------------------------------------------------------------------
(* core/tasks.py cleanup_old_telemetry(days_to_keep), run one second after  *)
(* the latest run of simulate_telemetry started                            *)

\* The rows of a reading table that satisfy timestamp >= cutoff, in order
RECURSIVE KeepFrom(_, _)
KeepFrom(table, cutoff) ==
    IF table = <<>> THEN <<>>
    ELSE IF Head(table).timestamp < cutoff
    THEN KeepFrom(Tail(table), cutoff)
    ELSE <<Head(table)>> \o KeepFrom(Tail(table), cutoff)

CleanupOldTelemetry(days_to_keep) ==
    /\ clock >= 1
    /\ calls < MaxCalls
    /\ calls' = calls + 1
    /\ LET now == Instants[clock] + 1
           cutoff == now - days_to_keep * 86400
       IN  /\ readings' = KeepFrom(readings, cutoff)
           /\ last' = [op |-> "cleanup_old_telemetry",
                       cutoff |-> cutoff,
                       deleted_count |->
                           Len(readings) - Len(KeepFrom(readings, cutoff))]
    /\ UNCHANGED <<devices, clock, ticks, ssm, seed>>

---------------------------------------------------------------------------
(* core/management/commands/seed.py Command.handle: every device is        *)
(* deleted, and its readings with it (on_delete=CASCADE), then the eight   *)
(* rows of the command are created.  No transaction spans the two          *)
(* statements: each commits by itself, and other processes run between.    *)

\* A run of the task whose devices are gone: the ids (uuids) it holds name
\* no row any more, which the model writes as id 0
Orphaned(tick) ==
    [tick EXCEPT !.devices =
        [k \in 1..Len(tick.devices) |-> [tick.devices[k] EXCEPT !.id = 0]]]

\* Device.objects.all().delete()
SeedDelete ==
    /\ seed.pc = "idle"
    /\ calls < MaxCalls
    /\ calls' = calls + 1
    /\ devices' = <<>>
    /\ readings' = <<>>
    /\ ticks' = [w \in Workers |-> Orphaned(ticks[w])]
    /\ ssm' = IF ssm.pc = "loaded" THEN [ssm EXCEPT !.id = 0] ELSE ssm
    /\ seed' = [seed EXCEPT !.pc = "cleared"]
    /\ last' = [op |-> "seed_delete", call |-> calls + 1]
    /\ UNCHANGED clock

\* Device.objects.bulk_create(devices): the rows registered since the
\* delete are older than the eight and stay before them
SeedCreate ==
    /\ seed.pc = "cleared"
    /\ devices' = devices \o SeededDevices
    /\ seed' = [seed EXCEPT !.pc = "idle"]
    /\ last' = [op |-> "seed_create", created |-> Len(SeededDevices)]
    /\ UNCHANGED <<readings, clock, ticks, ssm, calls>>

---------------------------------------------------------------------------
(* schema.py Query.resolve_energy_summary -> EnergyService               *)
(* .get_energy_summary: reads the device table and changes nothing         *)

GetEnergySummary ==
    /\ last' = [op |-> "get_energy_summary",
                summary |-> get_energy_summary(devices)]
    /\ UNCHANGED <<devices, readings, clock, ticks, ssm, calls, seed>>

---------------------------------------------------------------------------
(* TelemetryService.get_telemetry_aggregated: reads the reading table and  *)
(* changes nothing                                                         *)

GetAggregatedTelemetry(id, start_time, end_time, interval) ==
    /\ id \in 1..Len(devices)
    /\ last' = [op |-> "get_telemetry_aggregated",
                device |-> id, start_time |-> start_time,
                end_time |-> end_time, interval |-> interval,
                result |-> get_telemetry_aggregated(readings, id, start_time,
                                                    end_time, interval)]
    /\ UNCHANGED <<devices, readings, clock, ticks, ssm, calls, seed>>

---------------------------------------------------------------------------

(* Specifications.                                                         *)
(*                                                                         *)
(* config/celery.py schedules simulate_telemetry every 60 s and sets       *)
(* neither the pool nor its concurrency, and the task takes no lock: a run *)
(* can start on any worker of Workers while another is in flight.          *)

\* One statement of a run of simulate_telemetry, on any worker
TickStep ==
    \/ \E w \in Workers : TickSimulate(w)
    \/ \E w \in Workers : TickBulkUpdate(w)
    \/ \E w \in Workers : TickRecord(w)
    \/ \E w \in Workers : TickReturn(w)

Next ==
    \/ \E input \in RegisterInputs : RegisterDevice(input)
    \/ \E id \in 1..MaxStore : SetStorageModeGet(id)
    \/ \E mode \in ModeInputs, rate \in RateInputs :
           SetStorageModeApply(mode, rate)
    \/ \E w \in Workers : TickLoad(w)
    \/ TickStep
    \/ \E w \in Workers, k \in 1..MaxStore : TickSimulateRaises(w, k)
    \/ \E w \in Workers : TickRecordFails(w)
    \/ \E w \in Workers : TickCancel(w)
    \/ \E id \in 1..MaxStore, k \in 1..clock :
           RecordTelemetry(id, Instants[k])
    \/ \E id \in 1..MaxStore, new_state \in StateInputs :
           UpdateDeviceState(id, new_state)
    \/ \E days_to_keep \in DaysInputs : CleanupOldTelemetry(days_to_keep)
    \/ SeedDelete
    \/ SeedCreate

Spec == Init /\ [][Next]_vars

\* The energy summary, asked of a store that holds any of SummaryStores
InitSummary ==
    /\ devices \in SummaryStores
    /\ readings = <<>>
    /\ clock = 0
    /\ ticks = [w \in Workers |-> IdleTick]
    /\ ssm = IdleSsm
    /\ last = [op |-> "init"]
    /\ calls = 0
    /\ seed = IdleSeed

NextSummary == GetEnergySummary

SpecSummary == InitSummary /\ [][NextSummary]_vars

\* The aggregation, asked of a reading table that holds any of
\* AggregateTables
InitAggregate ==
    /\ devices = <<AggregateBattery, AggregateAppliance>>
    /\ readings \in AggregateTables
    /\ clock = 0
    /\ ticks = [w \in Workers |-> IdleTick]
    /\ ssm = IdleSsm
    /\ last = [op |-> "init"]
    /\ calls = 0
    /\ seed = IdleSeed

NextAggregate ==
    \E id \in 1..MaxDevices, start_time \in StartInputs,
       end_time \in EndInputs, interval \in IntervalInputs :
        GetAggregatedTelemetry(id, start_time, end_time, interval)

SpecAggregate == InitAggregate /\ [][NextAggregate]_vars

\* The tick alone, run on a store that holds any of TickStores
InitTick ==
    /\ devices \in TickStores
    /\ readings = <<>>
    /\ clock = 0
    /\ ticks = [w \in Workers |-> IdleTick]
    /\ ssm = IdleSsm
    /\ last = [op |-> "init"]
    /\ calls = 0
    /\ seed = IdleSeed

NextTick ==
    \/ \E w \in Workers : TickLoad(w)
    \/ TickStep

SpecTick == InitTick /\ [][NextTick]_vars

\* The beat schedule sends simulate_telemetry every 60 seconds, for ever:
\* a run starts as in TickLoad, at a new instant each time.  The model
\* follows the first MaxRuns runs.
TickLoadRecurring(w) ==
    /\ Starts(w)
    /\ clock < MaxRuns
    /\ clock' = clock + 1
    /\ ticks' = [ticks EXCEPT ![w] =
                    [pc |-> "loaded", timestamp |-> Instants[clock + 1],
                     devices |-> ActiveDevices, next |-> 1]]
    /\ last' = [op |-> "simulate_telemetry_started",
                timestamp |-> Instants[clock + 1]]
    /\ UNCHANGED <<devices, readings, ssm>>

\* The recurring tick, with no mode change beside it, on a store that holds
\* any of LiveStores
InitLive ==
    /\ devices \in LiveStores
    /\ readings = <<>>
    /\ clock = 0
    /\ ticks = [w \in Workers |-> IdleTick]
    /\ ssm = IdleSsm
    /\ last = [op |-> "init"]
    /\ calls = 0
    /\ seed = IdleSeed

NextLive ==
    \/ \E w \in Workers : TickLoadRecurring(w)
    \/ TickStep

\* The schedule keeps firing and each worker runs each statement of the
\* task it was given
FairLive ==
    \A w \in Workers :
        /\ WF_vars(TickLoadRecurring(w))
        /\ WF_vars(TickSimulate(w))
        /\ WF_vars(TickBulkUpdate(w))
        /\ WF_vars(TickRecord(w))
        /\ WF_vars(TickReturn(w))

SpecLive == InitLive /\ [][NextLive]_vars /\ FairLive

\* Every operation, on a store that holds any of ModeStores
InitMode ==
    /\ devices \in ModeStores
    /\ readings = <<>>
    /\ clock = 0
    /\ ticks = [w \in Workers |-> IdleTick]
    /\ ssm = IdleSsm
    /\ last = [op |-> "init"]
    /\ calls = 0
    /\ seed = IdleSeed

SpecMode == InitMode /\ [][Next]_vars

---------------------------------------------------------------------------
(* Properties.                                                             *)

StorageIds == {i \in 1..Len(devices) : devices[i].device_type \in StorageTypes}
ChargeOf(device) == device.current_state["current_charge_wh"]
ModeOf(device) == device.current_state["mode"]
RateOf(device) == device.current_state["current_rate_watts"]

\* The charge a tick computes before it clamps
RawCharge(device) ==
    IF ModeOf(device) = CHARGING
    THEN ChargeOf(device) + (RateOf(device) * 60) \div 3600
    ELSE IF ModeOf(device) = DISCHARGING
    THEN ChargeOf(device) - (RateOf(device) * 60) \div 3600
    ELSE ChargeOf(device)

\* The entries of the runs that have simulated their devices
Simulated ==
    {e \in UNION {{ticks[w].devices[k] : k \in 1..Len(ticks[w].devices)} :
                     w \in {v \in Workers :
                               ticks[v].pc \in {"simulated", "updated"}}} :
        e.device.device_type \in StorageTypes}

\* The entries the bulk_update that completed last has written: those
\* whose row the store still holds
JustWritten ==
    IF last.op = "bulk_update"
    THEN {e \in {ticks[last.worker].devices[k] :
                    k \in 1..Len(ticks[last.worker].devices)} : e.id # 0}
    ELSE {}

\* The step is one of the seed command: the rows of the next state are not
\* those of this one
Reseeds == seed'.pc # seed.pc

\* The highest rate SetStorageMode allows for a mode
MaxRateFor(device, mode) ==
    IF mode = CHARGING THEN device.properties["max_charge_rate_watts"]
    ELSE IF mode = DISCHARGING
    THEN device.properties["max_discharge_rate_watts"]
    ELSE 0

\* C1: the charge of every Battery and ElectricVehicle is at most its
\* capacity and at least 0.1 times its capacity, in every state.
C1_ChargeWithinBounds ==
    \A i \in StorageIds :
        /\ ChargeOf(devices[i]) <= CapacityOrZero(devices[i])
        /\ ChargeOf(devices[i]) * 10 >= CapacityOrZero(devices[i])

\* C2: a tick that finds a storage device Charging and computes a charge at
\* or above the capacity produces mode Idle and rate 0 in that same tick,
\* and the state a tick writes is never Charging with the charge at or
\* above the capacity.
C2_FullChargeGoesIdle ==
    /\ \A e \in Simulated :
           (ModeOf(e.pre) = CHARGING
               /\ RawCharge(e.pre) >= CapacityOrZero(e.pre))
           => (ModeOf(e.device) = IDLE /\ RateOf(e.device) = 0)
    /\ \A e \in JustWritten :
           e.device.device_type \in StorageTypes
           => ~(ModeOf(devices[e.id]) = CHARGING
                /\ ChargeOf(devices[e.id]) >= CapacityOrZero(devices[e.id]))

\* A tick has just written a battery that it found Charging below its
\* capacity and that its step took past the capacity: it is stored Idle.
C2_Witness ==
    \E e \in JustWritten :
        /\ e.device.device_type \in StorageTypes
        /\ ModeOf(e.pre) = CHARGING
        /\ ChargeOf(e.pre) < CapacityOrZero(e.pre)
        /\ RawCharge(e.pre) > CapacityOrZero(e.pre)
        /\ ModeOf(devices[e.id]) = IDLE
        /\ ChargeOf(devices[e.id]) = CapacityOrZero(e.pre)

\* C3: a tick that finds a storage device Discharging and computes a charge
\* at or below 0.1 times the capacity produces mode Idle and rate 0 in that
\* same tick: no tick writes the floor charge with the mode still
\* Discharging.
C3_ReserveFloorGoesIdle ==
    /\ \A e \in Simulated :
           (ModeOf(e.pre) = DISCHARGING
               /\ RawCharge(e.pre) * 10 <= CapacityOrZero(e.pre))
           => (ModeOf(e.device) = IDLE /\ RateOf(e.device) = 0)
    /\ \A e \in JustWritten :
           e.device.device_type \in StorageTypes
           => ~(ModeOf(devices[e.id]) = DISCHARGING
                /\ ChargeOf(devices[e.id]) * 10
                       <= CapacityOrZero(devices[e.id]))

\* A tick has just written a battery that it found Discharging above the
\* floor and that its step took to the floor: it is stored Idle at the floor.
C3_Witness ==
    \E e \in JustWritten :
        /\ e.device.device_type \in StorageTypes
        /\ ModeOf(e.pre) = DISCHARGING
        /\ ChargeOf(e.pre) * 10 > CapacityOrZero(e.pre)
        /\ RawCharge(e.pre) * 10 <= CapacityOrZero(e.pre)
        /\ ModeOf(devices[e.id]) = IDLE
        /\ ChargeOf(devices[e.id]) * 10 = CapacityOrZero(e.pre)

\* C4: two runs of the tick are never in flight together: a run starts only
\* when no other run is between its read and its last write.
C4_TicksNeverOverlap ==
    Cardinality({w \in Workers : ticks[w].pc # "idle"}) <= 1

\* C5: after a tick is cancelled, every device whose state the tick changed
\* and saved has the reading of that tick's timestamp, holding that state.
C5_CancelledTickIsConsistent ==
    last.op = "tick_cancelled" =>
        \A k \in 1..Len(last.processed) :
            LET e == last.processed[k]
            IN  (last.stage = "updated"
                    /\ e.device.current_state # e.pre.current_state)
                => \E i \in Matching(readings, e.id, last.timestamp) :
                       readings[i].state_snapshot = e.device.current_state

\* C6: the reading table holds at most one row per (device, timestamp), and
\* after a recording the row of its pair holds the values just recorded.
C6_OneReadingPerDeviceAndTimestamp ==
    /\ \A i, j \in 1..Len(readings) :
           (readings[i].device = readings[j].device
               /\ readings[i].timestamp = readings[j].timestamp) => i = j
    /\ last.op = "record_telemetry" =>
           \A i \in Matching(readings, last.row.device, last.row.timestamp) :
               readings[i] = last.row
    /\ last.op = "record_telemetry" =>
           Matching(readings, last.row.device, last.row.timestamp) # {}

\* A recording has just replaced a reading that held other values.
C6_Witness ==
    /\ last.op = "record_telemetry"
    /\ last.replaced
    /\ Cardinality(Matching(readings, last.row.device,
                            last.row.timestamp)) = 1

\* C7: the signed power of a device is its output for a SolarPanel, minus
\* its draw for an Appliance that is on and 0 for one that is off, the rate
\* for a storage device Discharging, minus the rate Charging, 0 Idle.
C7_SignedPower ==
    \A i \in 1..Len(devices) :
        LET d == devices[i]
            st == d.current_state
        IN  current_power_watts(d) =
                CASE d.device_type = SOLAR_PANEL -> st["current_output_watts"]
                  [] d.device_type = APPLIANCE ->
                        IF st["is_on"]
                        THEN 0 - st["current_power_draw_watts"] ELSE 0
                  [] d.device_type \in StorageTypes ->
                        CASE st["mode"] = DISCHARGING ->
                                 st["current_rate_watts"]
                          [] st["mode"] = CHARGING ->
                                 0 - st["current_rate_watts"]
                          [] st["mode"] = IDLE -> 0

\* An appliance that is on and draws power beside a storage device that
\* charges or discharges at a rate above 0.
C7_Witness ==
    \E i, j \in 1..Len(devices) :
        /\ devices[i].device_type = APPLIANCE
        /\ devices[i].current_state["is_on"]
        /\ current_power_watts(devices[i]) < 0
        /\ j \in StorageIds
        /\ ModeOf(devices[j]) # IDLE
        /\ RateOf(devices[j]) > 0
        /\ current_power_watts(devices[j]) # 0

\* C8: a SetStorageMode that succeeds stores rate 0 for Idle, else
\* min(rate, max_rate) for a supplied rate when max_rate > 0, 0 for a
\* supplied rate when max_rate is 0, and max_rate when no rate is supplied.
C8_EffectiveRate ==
    (last.op = "set_storage_mode" /\ last.ok) =>
        LET d == devices[last.id]
            max_rate == MaxRateFor(d, last.mode)
        IN  /\ ModeOf(d) = last.mode
            /\ RateOf(d) =
                 IF last.mode = IDLE THEN 0
                 ELSE IF last.rate_watts = None THEN max_rate
                 ELSE IF max_rate > 0 THEN Min(Val(last.rate_watts), max_rate)
                 ELSE 0

\* A SetStorageMode with a supplied rate above the maximum has stored the
\* maximum.
C8_Witness ==
    /\ last.op = "set_storage_mode"
    /\ last.ok
    /\ last.mode = CHARGING
    /\ last.rate_watts # None
    /\ Val(last.rate_watts) > MaxRateFor(devices[last.id], CHARGING)
    /\ RateOf(devices[last.id]) = MaxRateFor(devices[last.id], CHARGING)
    /\ RateOf(devices[last.id]) > 0

\* C9: after a SetStorageMode that succeeds, the stored rate is at least 0
\* and at most the maximum rate of the mode.
C9_RateBetweenZeroAndMax ==
    (last.op = "set_storage_mode" /\ last.ok) =>
        /\ RateOf(devices[last.id]) >= 0
        /\ RateOf(devices[last.id]) <= MaxRateFor(devices[last.id], last.mode)

\* C10: a SetStorageMode on a device that is no storage device, or with a
\* mode that is none of Charging, Discharging and Idle, fails and leaves
\* the device table as it was.
C10_RejectedModeChangeKeepsState ==
    [][(ssm.pc = "loaded" /\ ssm'.pc = "idle"
          /\ (Val(ssm.device).device_type \notin StorageTypes
                \/ last'.mode \notin DeviceMode))
       => (~last'.ok /\ devices' = devices)]_vars

\* A SetStorageMode has just been rejected, for the type of its device or
\* for its mode.
C10_Witness ==
    /\ last.op = "set_storage_mode"
    /\ ~last.ok
    /\ \/ devices[last.id].device_type \notin StorageTypes
       \/ last.mode \notin DeviceMode

\* The keys the state of a device of a type holds (spec section 4.1)
StateSchema(device_type) ==
    CASE device_type = SOLAR_PANEL -> {"current_output_watts"}
      [] device_type \in StorageTypes ->
            {"current_charge_wh", "mode", "current_rate_watts"}
      [] device_type = APPLIANCE -> {"is_on", "current_power_draw_watts"}
      [] OTHER -> {}

\* The required properties of a type (spec section 4.1)
RequiredKeys(device_type) ==
    CASE device_type = SOLAR_PANEL -> {"rated_capacity_watts"}
      [] device_type = BATTERY ->
            {"capacity_wh", "max_charge_rate_watts", "max_discharge_rate_watts"}
      [] device_type = ELECTRIC_VEHICLE ->
            {"battery_capacity_wh", "max_charge_rate_watts",
             "max_discharge_rate_watts"}
      [] device_type = APPLIANCE -> {"average_power_draw_watts"}
      [] OTHER -> {}

\* Whether a device holds the initial state of its type
HoldsInitialState(d) ==
    LET st == d.current_state
    IN  /\ DOMAIN st = StateSchema(d.device_type)
        /\ d.device_type = SOLAR_PANEL => st["current_output_watts"] = 0
        /\ d.device_type = BATTERY =>
               /\ st["current_charge_wh"] * 10 = d.properties["capacity_wh"] * 5
               /\ st["mode"] = IDLE
               /\ st["current_rate_watts"] = 0
        /\ d.device_type = ELECTRIC_VEHICLE =>
               /\ st["current_charge_wh"] * 10
                      = d.properties["battery_capacity_wh"] * 8
               /\ st["mode"] = IDLE
               /\ st["current_rate_watts"] = 0
        /\ d.device_type = APPLIANCE =>
               /\ st["is_on"] = FALSE
               /\ st["current_power_draw_watts"] = 0

\* Whether an input of RegisterDevice is one the validation must refuse
MustBeRefused(input) ==
    \/ input.device_type \notin DeviceType
    \/ RequiredKeys(input.device_type) \ DOMAIN input.properties # {}
    \/ \E k \in DOMAIN input.properties : input.properties[k] < 0

\* A step that is a RegisterDevice
IsRegisterStep ==
    /\ last'.op = "register_device"
    /\ UNCHANGED <<readings, clock, ticks, ssm, calls>>
    /\ seed'.pc = seed.pc
    /\ <<devices, last>>' # <<devices, last>>

\* C11: a RegisterDevice with an unknown type, a missing required property
\* or a negative property fails and adds no device; any other adds exactly
\* one device, which holds the initial state of its type; and no device in
\* the store ever has an empty or partial current_state.
C11_RegistrationIsAllOrNothing ==
    /\ [](\A i \in 1..Len(devices) :
             StateSchema(devices[i].device_type)
                 \subseteq DOMAIN devices[i].current_state)
    /\ [][IsRegisterStep =>
            IF MustBeRefused(last'.input)
            THEN ~last'.ok /\ devices' = devices
            ELSE /\ last'.ok
                 /\ Len(devices') = Len(devices) + 1
                 /\ SubSeq(devices', 1, Len(devices)) = devices
                 /\ devices'[Len(devices')].device_type
                        = last'.input.device_type
                 /\ devices'[Len(devices')].properties
                        = last'.input.properties
                 /\ HoldsInitialState(devices'[Len(devices')])]_vars

\* A RegisterDevice has just been refused with a device in the store, and
\* the store is as it was.
C11_Witness ==
    /\ last.op = "register_device"
    /\ ~last.ok
    /\ MustBeRefused(last.input)
    /\ Len(devices) = 1
    /\ HoldsInitialState(devices[1])

\* C12: the keys of the properties of every device are exactly the required
\* properties of its type, and the keys of its current_state are exactly
\* the state keys of its type.
C12_ExactKeySets ==
    \A i \in 1..Len(devices) :
        /\ DOMAIN devices[i].properties = RequiredKeys(devices[i].device_type)
        /\ DOMAIN devices[i].current_state
               = StateSchema(devices[i].device_type)

\* C13: every required property of every device in the store is above 0.
C13_PropertiesArePositive ==
    \A i \in 1..Len(devices) :
        \A k \in RequiredKeys(devices[i].device_type) :
            devices[i].properties[k] > 0

\* C14: the device a RegisterDevice has just created holds the initial
\* state of its type: output 0; half the capacity, Idle, rate 0; four fifths
\* of the capacity, Idle, rate 0; off with draw 0 -- whatever the store,
\* the readings and the clock are.
C14_InitialState ==
    (last.op = "register_device" /\ last.ok) =>
        /\ devices[Len(devices)].device_type = last.input.device_type
        /\ devices[Len(devices)].properties = last.input.properties
        /\ HoldsInitialState(devices[Len(devices)])

\* An ElectricVehicle has just been registered after a tick has changed the
\* state of the device registered before it, and holds four fifths of its
\* capacity.
C14_Witness ==
    /\ last.op = "register_device"
    /\ last.ok
    /\ Len(devices) = 2
    /\ devices[2].device_type = ELECTRIC_VEHICLE
    /\ devices[2].current_state["current_charge_wh"] = 16
    /\ ~HoldsInitialState(devices[1])

\* C18: when simulate_device fails for one device of a tick, every other
\* device of the tick still has its reading of the tick's timestamp.
C18_FailureIsIsolated ==
    last.op = "tick_failed" =>
        \A id \in last.others :
            Matching(readings, id, last.timestamp) # {}

\* timestamp.hour * 3600 + timestamp.minute * 60 + timestamp.second
SecondOfDay(timestamp) == timestamp % 86400

\* The solar panels of the runs that have simulated their devices
SimulatedPanels ==
    UNION {{[timestamp |-> ticks[w].timestamp,
             device |-> ticks[w].devices[k].device] :
                k \in {j \in 1..Len(ticks[w].devices) :
                          ticks[w].devices[j].device.device_type = SOLAR_PANEL}} :
              w \in {v \in Workers : ticks[v].pc \in {"simulated", "updated"}}}

\* C19: a tick whose time of day, counted to the second, is before 06:00:00
\* or after 20:00:00 gives every solar panel the output 0.
C19_NoOutputOutsideDaylight ==
    \A e \in SimulatedPanels :
        (SecondOfDay(e.timestamp) < 6 * 3600
            \/ SecondOfDay(e.timestamp) > 20 * 3600)
        => e.device.current_state["current_output_watts"] = 0

\* C20: the output of every solar panel, in the store and in the runs that
\* have simulated it, is at least 0 and at most its rated capacity.
C20_OutputWithinRatedCapacity ==
    /\ \A i \in 1..Len(devices) :
           devices[i].device_type = SOLAR_PANEL =>
               /\ devices[i].current_state["current_output_watts"] >= 0
               /\ devices[i].current_state["current_output_watts"]
                      <= devices[i].properties["rated_capacity_watts"]
    /\ \A e \in SimulatedPanels :
           /\ e.device.current_state["current_output_watts"] >= 0
           /\ e.device.current_state["current_output_watts"]
                  <= e.device.properties["rated_capacity_watts"]

\* A tick at 10:05 has drawn the variation +15 %, which takes the curve's
\* 892 W past the rated 1000 W, and the panel is stored at its rated capacity.
C20_Witness ==
    /\ last.op = "bulk_update"
    /\ MinuteOfDay(ticks[last.worker].timestamp) = 605
    /\ \E i \in 1..Len(devices) :
           /\ devices[i].device_type = SOLAR_PANEL
           /\ devices[i].current_state["current_output_watts"]
                  = devices[i].properties["rated_capacity_watts"]
           /\ devices[i].properties["rated_capacity_watts"] > 0

\* The sum of f over the devices of the store at the ids of a set
RECURSIVE SumOf(_, _)
SumOf(S, f) ==
    IF S = {} THEN 0
    ELSE LET i == CHOOSE x \in S : TRUE
         IN  f[i] + SumOf(S \ {i}, f)

\* The signed power of each device of the store
SignedPower == [i \in 1..Len(devices) |-> current_power_watts(devices[i])]
ActiveIds == {i \in 1..Len(devices) : devices[i].is_active}

\* C15: the energy summary holds as total production the sum of the signed
\* power of the active devices whose power is above 0, as total consumption
\* the sum of the absolute power of the active devices whose power is below
\* 0, and as net the one minus the other, which is the sum of the signed
\* power of the active devices; an inactive device adds to none.
C15_EnergySummary ==
    last.op = "get_energy_summary" =>
        LET producing == {i \in ActiveIds : SignedPower[i] > 0}
            consuming == {i \in ActiveIds : SignedPower[i] < 0}
        IN  /\ last.summary.total_production_watts
                   = SumOf(producing, SignedPower)
            /\ last.summary.total_consumption_watts
                   = 0 - SumOf(consuming, SignedPower)
            /\ last.summary.net_power_watts
                   = last.summary.total_production_watts
                         - last.summary.total_consumption_watts
            /\ last.summary.net_power_watts = SumOf(ActiveIds, SignedPower)

\* A summary of a store that holds an active device that consumes and an
\* inactive device that produces: the production is 0.
C15_Witness ==
    /\ last.op = "get_energy_summary"
    /\ \E i, j \in 1..Len(devices) :
           /\ devices[i].is_active /\ SignedPower[i] < 0
           /\ ~devices[j].is_active /\ SignedPower[j] > 0
    /\ last.summary.total_production_watts = 0
    /\ last.summary.total_consumption_watts > 0

\* The first seconds of the months of 2024
MonthStarts ==
    {d * 86400 : d \in {0, 31, 60, 91, 121, 152, 182, 213, 244, 274, 305, 335}}

\* Whether p is the start of the period of an interval unit that holds the
\* timestamp t: the hour, the day, the week from its Monday, the month
HoldsInPeriod(interval, p, t) ==
    CASE interval = "hour" -> p % 3600 = 0 /\ p <= t /\ t < p + 3600
      [] interval = "day" -> p % 86400 = 0 /\ p <= t /\ t < p + 86400
      [] interval = "week" -> p % 604800 = 0 /\ p <= t /\ t < p + 604800
      [] interval = "month" ->
            /\ p \in MonthStarts
            /\ p <= t
            /\ \A q \in MonthStarts : q > p => t < q

\* The readings a query that has just completed ranges over: those of its
\* device from its start to its end, both included
Queried ==
    {i \in 1..Len(readings) :
        /\ readings[i].device = last.device
        /\ last.start_time <= readings[i].timestamp
        /\ readings[i].timestamp <= last.end_time}

\* The queried readings that belong to the bucket b of the result
MembersOf(b) ==
    {i \in Queried :
        HoldsInPeriod(last.interval, last.result[b].period,
                      readings[i].timestamp)}

PowerOfReading == [i \in 1..Len(readings) |-> readings[i].power_watts]

\* C16: every reading of the device with start <= timestamp <= end is in
\* exactly one bucket, the one of its truncated timestamp, and the avg, max
\* and min of power of every bucket are those of exactly the queried
\* readings of its period.
C16_BucketsHoldTheirReadings ==
    (last.op = "get_telemetry_aggregated"
        /\ last.interval \in {"hour", "day", "week", "month"}) =>
        /\ \A i \in Queried :
               Cardinality({b \in 1..Len(last.result) : i \in MembersOf(b)}) = 1
        /\ \A b \in 1..Len(last.result) :
               /\ last.result[b].avg_power * Cardinality(MembersOf(b))
                      = SumOf(MembersOf(b), PowerOfReading)
               /\ \E i \in MembersOf(b) :
                      last.result[b].max_power = PowerOfReading[i]
               /\ \A i \in MembersOf(b) :
                      PowerOfReading[i] <= last.result[b].max_power
               /\ \E i \in MembersOf(b) :
                      last.result[b].min_power = PowerOfReading[i]
               /\ \A i \in MembersOf(b) :
                      PowerOfReading[i] >= last.result[b].min_power

\* The query by hour from 10:05 to 11:10, both the timestamp of a reading,
\* over a table that holds the battery's readings of 10:05, 10:40 and 11:10
\* and the appliance's reading of 10:40: the bucket of 10:00 holds the first
\* two and the bucket of 11:00 the third.
C16_Witness ==
    /\ last.op = "get_telemetry_aggregated"
    /\ last.interval = "hour"
    /\ last.device = 1
    /\ \E i \in 1..Len(readings) :
           readings[i].device = 2 /\ readings[i].timestamp = 124800
    /\ {readings[i].timestamp : i \in Queried} = {122700, 124800, 126600}
    /\ last.start_time = 122700
    /\ last.end_time = 126600
    /\ Len(last.result) = 2
    /\ last.result[1].period = 122400
    /\ last.result[1].avg_power = 0 - 5400
    /\ last.result[1].max_power = 0 - 3600
    /\ last.result[1].min_power = 0 - 7200
    /\ last.result[2].period = 126000
    /\ last.result[2].avg_power = 3600

\* C17: the buckets of a result are in strictly ascending order of period,
\* so no period appears twice, and every bucket's period holds a queried
\* reading.
C17_BucketsAscendingAndNonEmpty ==
    (last.op = "get_telemetry_aggregated"
        /\ last.interval \in {"hour", "day", "week", "month"}) =>
        /\ \A a, b \in 1..Len(last.result) :
               a < b => last.result[a].period < last.result[b].period
        /\ \A b \in 1..Len(last.result) : MembersOf(b) # {}

\* The query by day over a table that holds readings of the battery on 2
\* January and on 9 January and none between: two buckets, and none for the
\* six days between.
C17_Witness ==
    /\ last.op = "get_telemetry_aggregated"
    /\ last.interval = "day"
    /\ last.device = 1
    /\ {TruncDay(readings[i].timestamp) : i \in Queried} = {86400, 691200}
    /\ Len(last.result) = 2
    /\ last.result[1].period = 86400
    /\ last.result[2].period = 691200

\* The signed power of a device by the table of spec section 4.2
TablePower(d) ==
    CASE d.device_type = SOLAR_PANEL -> d.current_state["current_output_watts"]
      [] d.device_type = APPLIANCE ->
            IF d.current_state["is_on"]
            THEN 0 - d.current_state["current_power_draw_watts"] ELSE 0
      [] d.device_type \in StorageTypes ->
            CASE d.current_state["mode"] = DISCHARGING ->
                     d.current_state["current_rate_watts"]
              [] d.current_state["mode"] = CHARGING ->
                     0 - d.current_state["current_rate_watts"]
              [] d.current_state["mode"] = IDLE -> 0

\* C21: the reading a recording has just written holds the signed power of
\* the device it was handed, its charge when it is a Battery or an
\* ElectricVehicle and no charge else, and its current_state; a step that
\* changes the current_state of a device leaves the reading table as it
\* was; and no step changes a reading that stays stored, other than a
\* recording for the reading's own device and timestamp.
C21_ReadingHoldsTheRecordedState ==
    /\ [](last.op = "record_telemetry" =>
             /\ Matching(readings, last.row.device, last.row.timestamp) # {}
             /\ \A i \in Matching(readings, last.row.device,
                                  last.row.timestamp) :
                    /\ readings[i].power_watts = TablePower(last.device)
                    /\ readings[i].charge_wh =
                           IF last.device.device_type \in StorageTypes
                           THEN Some(last.device.current_state
                                         ["current_charge_wh"])
                           ELSE None
                    /\ readings[i].state_snapshot = last.device.current_state)
    /\ [][(/\ ~Reseeds
            /\ \E i \in 1..Len(devices) :
                   devices'[i].current_state # devices[i].current_state)
              => readings' = readings]_vars
    /\ [][~Reseeds =>
             \A i \in 1..Len(readings), j \in 1..Len(readings') :
                 (/\ readings'[j].device = readings[i].device
                  /\ readings'[j].timestamp = readings[i].timestamp) =>
                     \/ readings'[j] = readings[i]
                     \/ /\ last'.op = "record_telemetry"
                        /\ last'.row.device = readings[i].device
                        /\ last'.row.timestamp = readings[i].timestamp]_vars

\* The store holds a reading of a storage device whose charge, mode or rate
\* has changed since, and a reading of power below 0.
C21_Witness ==
    /\ \E i \in 1..Len(readings) :
           /\ readings[i].charge_wh # None
           /\ readings[i].state_snapshot
                  # devices[readings[i].device].current_state
    /\ \E i \in 1..Len(readings) : readings[i].power_watts < 0

\* C22: the step that saves a successful SetStorageMode leaves every other
\* device, the reading store, and the properties, the type and the active
\* flag of its device as the store held them, and changes no key of the
\* stored current_state of its device other than the mode and the rate: the
\* stored charge is the one the store held before the save.
C22_ModeChangeFrame ==
    [][(ssm.pc = "loaded" /\ ssm'.pc = "idle" /\ last'.ok) =>
          /\ readings' = readings
          /\ Len(devices') = Len(devices)
          /\ \A i \in 1..Len(devices) : i # ssm.id => devices'[i] = devices[i]
          /\ devices'[ssm.id].properties = devices[ssm.id].properties
          /\ devices'[ssm.id].device_type = devices[ssm.id].device_type
          /\ devices'[ssm.id].is_active = devices[ssm.id].is_active
          /\ DOMAIN devices'[ssm.id].current_state
                 = DOMAIN devices[ssm.id].current_state
          /\ \A k \in DOMAIN devices[ssm.id].current_state
                         \ {"mode", "current_rate_watts"} :
                 devices'[ssm.id].current_state[k]
                     = devices[ssm.id].current_state[k]]_vars

\* C23: the error of a validation names every required key that is absent,
\* and names a property below 0 whenever there is one, also when a required
\* key is absent.
C23_BothChecksRun ==
    (last.op = "register_device" /\ last.input.device_type \in DeviceType) =>
        LET missing == RequiredKeys(last.input.device_type)
                           \ DOMAIN last.input.properties
            negative == {k \in DOMAIN last.input.properties :
                            last.input.properties[k] < 0}
        IN  /\ missing # {} => missing \subseteq last.error.keys
            /\ negative # {} => negative \cap last.error.keys # {}

\* C24: the charge percentage of a Battery or an ElectricVehicle is its
\* charge / capacity * 100 when the capacity is above 0 and 0 when the
\* capacity is 0, in the device and in the storage states of a summary; a
\* SolarPanel and an Appliance have no charge percentage and no capacity.
C24_ChargePercentage ==
    /\ \A i \in 1..Len(devices) :
           LET d == devices[i]
           IN  IF d.device_type \in StorageTypes
               THEN /\ capacity_wh(d) # None
                    /\ charge_percentage(d) # None
                    /\ Val(capacity_wh(d)) > 0 =>
                           Val(charge_percentage(d)) * Val(capacity_wh(d))
                               = ChargeOf(d) * 100
                    /\ Val(capacity_wh(d)) = 0 => Val(charge_percentage(d)) = 0
               ELSE charge_percentage(d) = None /\ capacity_wh(d) = None
    /\ last.op = "get_energy_summary" =>
           \A k \in 1..Len(last.summary.storage_states) :
               LET st == last.summary.storage_states[k]
               IN  /\ st.capacity_wh > 0 =>
                          st.charge_percentage * st.capacity_wh
                              = st.current_charge_wh * 100
                   /\ st.capacity_wh = 0 => st.charge_percentage = 0

\* A summary of a store that holds the battery of capacity 0 and a battery
\* that has charged to 7 of its 10 Wh: the storage states hold 0 and 70.
C24_Witness ==
    /\ last.op = "get_energy_summary"
    /\ \E k, m \in 1..Len(last.summary.storage_states) :
           /\ last.summary.storage_states[k].capacity_wh = 0
           /\ last.summary.storage_states[k].charge_percentage = 0
           /\ last.summary.storage_states[m].capacity_wh = 10
           /\ last.summary.storage_states[m].current_charge_wh = 7
           /\ last.summary.storage_states[m].charge_percentage = 70

\* C25: a device is a producer exactly when its signed power is above 0 and
\* a consumer exactly when it is below 0, and never both.
C25_ProducerConsumerFollowPower ==
    \A i \in 1..Len(devices) :
        /\ is_producer(devices[i]) <=> TablePower(devices[i]) > 0
        /\ is_consumer(devices[i]) <=> TablePower(devices[i]) < 0
        /\ ~(is_producer(devices[i]) /\ is_consumer(devices[i]))

\* C26: a tick takes the charge of a storage device it found Charging to
\* min(charge + rate / 60, capacity), of one it found Discharging to
\* max(charge - rate / 60, 0.1 * capacity), and leaves the charge of one it
\* found Idle, at every instant it runs.
C26_ChargeStepIsRateOverSixty ==
    \A e \in Simulated :
        LET charge == ChargeOf(e.pre)
            rate == RateOf(e.pre)
            capacity == CapacityOrZero(e.pre)
        IN  /\ rate % 60 = 0
            /\ ModeOf(e.pre) = CHARGING =>
                   ChargeOf(e.device) = Min(charge + rate \div 60, capacity)
            /\ ModeOf(e.pre) = DISCHARGING =>
                   ChargeOf(e.device) * 10
                       = Max((charge - rate \div 60) * 10, capacity)
            /\ ModeOf(e.pre) = IDLE => ChargeOf(e.device) = charge

\* The second tick, of Friday 2 February, has found a battery Charging
\* at 120 W with 7 Wh and has taken it to 9 Wh.
C26_Witness ==
    /\ clock = 2
    /\ \E e \in Simulated :
           /\ ModeOf(e.pre) = CHARGING
           /\ RateOf(e.pre) = 120
           /\ ChargeOf(e.pre) = 7
           /\ ChargeOf(e.device) = 9

\* The readings of a device at a timestamp
ReadingsAt(id, timestamp) == Matching(readings, id, timestamp)

\* C27: when a tick at timestamp t has completed, the devices it processed
\* are the devices that were active when it began, each once; each holds the
\* state of one simulate_device applied to the state the tick read, and has
\* exactly one reading at t, whose power, charge and snapshot are those of
\* that state; an inactive device has no reading, and no step of a tick
\* changes an inactive device.
C27_TickCoversTheActiveDevices ==
    /\ [](last.op = "simulate_telemetry" =>
             LET P == last.processed
                 t == last.timestamp
             IN  /\ {P[k].id : k \in 1..Len(P)} = ActiveIds
                 /\ Len(P) = Cardinality(ActiveIds)
                 /\ \A k \in 1..Len(P) :
                        LET i == P[k].id
                        IN  /\ P[k].pre.is_active
                            /\ \E draw \in DrawsFor(P[k].pre.device_type) :
                                   devices[i].current_state =
                                       Update(P[k].pre.current_state,
                                              simulate_device(P[k].pre, t, draw))
                            /\ Cardinality(ReadingsAt(i, t)) = 1
                            /\ \A j \in ReadingsAt(i, t) :
                                   /\ readings[j].power_watts
                                          = TablePower(devices[i])
                                   /\ readings[j].charge_wh =
                                          IF devices[i].device_type
                                                 \in StorageTypes
                                          THEN Some(ChargeOf(devices[i]))
                                          ELSE None
                                   /\ readings[j].state_snapshot
                                          = devices[i].current_state)
    /\ [](\A j \in 1..Len(readings) : devices[readings[j].device].is_active)
    /\ [][\A i \in 1..Len(devices) :
             ~devices[i].is_active => devices'[i] = devices[i]]_vars

\* A tick has completed on a store of an inactive device and an active
\* battery, whose charge it has changed and of which it has written the one
\* reading of the store.
C27_Witness ==
    /\ last.op = "simulate_telemetry"
    /\ Len(devices) = 2
    /\ Len(readings) = 1
    /\ \E i, j \in 1..2 :
           /\ ~devices[i].is_active
           /\ devices[j].is_active
           /\ devices[j].device_type \in StorageTypes
           /\ Len(last.processed) = 1
           /\ ChargeOf(devices[j]) # ChargeOf(last.processed[1].pre)

\* An Appliance is off with a power draw of 0, or on with a power draw
\* between 0.9 and 1.1 times its average_power_draw_watts
ApplianceStateAgrees(device) ==
    LET avg == device.properties["average_power_draw_watts"]
        draw == device.current_state["current_power_draw_watts"]
    IN  IF device.current_state["is_on"]
        THEN 90 * avg <= 100 * draw /\ 100 * draw <= 110 * avg
        ELSE draw = 0

\* The entries of the runs of the tick that have simulated their devices
TickEntries ==
    UNION {{ticks[w].devices[k] : k \in 1..Len(ticks[w].devices)} :
              w \in {v \in Workers : ticks[v].pc \in {"simulated", "updated"}}}

\* C28: every Appliance of the store, and every Appliance a tick has
\* simulated, is off with a power draw of 0 or on with a power draw between
\* 0.9 and 1.1 times its average_power_draw_watts; a step that changes is_on
\* or the power draw of an Appliance leaves the two in agreement.
C28_ApplianceDrawFollowsIsOn ==
    /\ \A i \in 1..Len(devices) :
           devices[i].device_type = APPLIANCE =>
               ApplianceStateAgrees(devices[i])
    /\ \A e \in TickEntries :
           e.device.device_type = APPLIANCE => ApplianceStateAgrees(e.device)

\* One tick has written two Appliances it found on: one is now off with a
\* power draw of 0, the other is on with a power draw of 0.9 times its
\* average.
C28_Witness ==
    /\ last.op = "bulk_update"
    /\ \E e \in JustWritten :
           /\ e.pre.device_type = APPLIANCE
           /\ e.pre.current_state["is_on"]
           /\ e.pre.current_state["current_power_draw_watts"] = 110
           /\ ~devices[e.id].current_state["is_on"]
           /\ devices[e.id].current_state["current_power_draw_watts"] = 0
    /\ \E e \in JustWritten :
           /\ e.pre.device_type = APPLIANCE
           /\ devices[e.id].current_state["is_on"]
           /\ devices[e.id].current_state["current_power_draw_watts"] = 90

\* The state keys the model of a device type computes
ComputedKeys(device_type) ==
    CASE device_type = SOLAR_PANEL -> {"current_output_watts"}
      [] device_type = APPLIANCE -> {"is_on", "current_power_draw_watts"}
      [] device_type \in StorageTypes ->
             {"current_charge_wh", "mode", "current_rate_watts"}

\* after differs from before in no more than a tick may change
TickFrame(before, after) ==
    /\ after.properties = before.properties
    /\ after.device_type = before.device_type
    /\ after.is_active = before.is_active
    /\ DOMAIN after.current_state = DOMAIN before.current_state
    /\ \A key \in DOMAIN before.current_state
                      \ ComputedKeys(before.device_type) :
           after.current_state[key] = before.current_state[key]
    /\ before.device_type \in StorageTypes =>
           \/ /\ ModeOf(after) = ModeOf(before)
              /\ RateOf(after) = RateOf(before)
           \/ /\ ModeOf(before) # IDLE
              /\ ModeOf(after) = IDLE
              /\ RateOf(after) = 0
    /\ (before.device_type \in StorageTypes /\ ModeOf(before) = IDLE) =>
           after.current_state = before.current_state

\* C29: what a tick has computed for a device differs from what it read in
\* the state keys of the device type's model only, every other key is kept,
\* and a storage device read in mode Idle keeps charge, mode and rate; the
\* bulk_update of a tick changes the store in no more than that, and
\* changes neither the properties, the device type nor the active flag of a
\* device.
C29_TickFrame ==
    /\ [](\A e \in TickEntries : TickFrame(e.pre, e.device))
    /\ [][(\E w \in Workers :
               ticks[w].pc = "simulated" /\ ticks'[w].pc = "updated") =>
             /\ Len(devices') = Len(devices)
             /\ \A i \in 1..Len(devices) :
                    TickFrame(devices[i], devices'[i])]_vars

\* A tick has written a solar panel whose state holds one more key and whose
\* output it has changed, and a battery in mode Idle.
C29_Witness ==
    /\ last.op = "bulk_update"
    /\ \E e \in JustWritten :
           /\ e.pre.device_type = SOLAR_PANEL
           /\ "firmware" \in DOMAIN e.pre.current_state
           /\ devices[e.id].current_state["firmware"] = 7
           /\ devices[e.id].current_state["current_output_watts"]
                  # e.pre.current_state["current_output_watts"]
    /\ \E e \in JustWritten :
           /\ e.pre.device_type = BATTERY
           /\ ModeOf(e.pre) = IDLE
           /\ devices[e.id] = e.pre

\* C30: the bulk_update of a tick leaves the mode and the rate of a storage
\* device whose mode or rate was set after the tick read it as they were
\* set, or makes them Idle and 0 when the charge step from the set mode and
\* rate reaches the limit; it does not put back the values the tick read.
C30_ModeChangeSurvivesTheTick ==
    [][\A w \in Workers :
          (ticks[w].pc = "simulated" /\ ticks'[w].pc = "updated") =>
          \A e \in {ticks[w].devices[k] : k \in 1..Len(ticks[w].devices)} :
              (/\ e.id # 0
               /\ e.pre.device_type \in StorageTypes
               /\ \/ ModeOf(devices[e.id]) # ModeOf(e.pre)
                  \/ RateOf(devices[e.id]) # RateOf(e.pre)) =>
                  \/ /\ ModeOf(devices'[e.id]) = ModeOf(devices[e.id])
                     /\ RateOf(devices'[e.id]) = RateOf(devices[e.id])
                  \/ /\ should_auto_idle(devices[e.id],
                             update_storage_charge(devices[e.id]))
                     /\ ModeOf(devices'[e.id]) = IDLE
                     /\ RateOf(devices'[e.id]) = 0]_vars

\* C32: the bulk_update of a tick changes the stored mode of a storage
\* device only from Charging to Idle or from Discharging to Idle; the stored
\* mode of a storage device changes in no step other than that bulk_update
\* and the save of a SetStorageMode; and a storage device stored in mode
\* Idle has rate 0.
C32_TickModeTransitions ==
    /\ [][(\E w \in Workers :
               ticks[w].pc = "simulated" /\ ticks'[w].pc = "updated") =>
             \A i \in StorageIds :
                 \/ ModeOf(devices'[i]) = ModeOf(devices[i])
                 \/ /\ ModeOf(devices[i]) \in {CHARGING, DISCHARGING}
                    /\ ModeOf(devices'[i]) = IDLE]_vars
    /\ [][\A i \in StorageIds :
             (~Reseeds /\ ModeOf(devices'[i]) # ModeOf(devices[i])) =>
                 \/ \E w \in Workers :
                        ticks[w].pc = "simulated" /\ ticks'[w].pc = "updated"
                 \/ ssm.pc = "loaded" /\ ssm'.pc = "idle"]_vars
    /\ [](\A i \in StorageIds :
             ModeOf(devices[i]) = IDLE => RateOf(devices[i]) = 0)

\* C31: under the recurring tick and with no mode change, no run writes
\* back, as the row of a storage device it loaded in mode Charging or
\* Discharging at a rate of 0 or more, the very row it loaded.  The patch of
\* a storage device is a function of the row alone (simulate_device draws
\* nothing for it and does not read the timestamp), so a run that stores the
\* row it loaded is followed by runs that do the same, and the device is in
\* its mode after every run of the schedule: it never comes to mode Idle.
C31_NoRunLeavesTheRowItLoaded ==
    [][\A w \in Workers :
          (ticks[w].pc = "simulated" /\ ticks'[w].pc = "updated") =>
              \A k \in 1..Len(ticks[w].devices) :
                  LET e == ticks[w].devices[k]
                  IN  (/\ e.pre.device_type \in StorageTypes
                       /\ ModeOf(e.pre) \in {CHARGING, DISCHARGING}
                       /\ RateOf(e.pre) >= 0)
                          => devices'[e.id] # e.pre]_vars

=============================================================================
